---- MODULE Spec2Model ----
(***************************************************************************)
(* A model of the CHIP-8 emulator: the instruction decoder                 *)
(* (emulator/program.rs), the virtual machine and its execute step         *)
(* (emulator/vm.rs) and the two loops of the executor                      *)
(* (emulator/executor.rs) that share the VMInterface behind one mutex.     *)
(***************************************************************************)
EXTENDS Integers, Sequences, FiniteSets, TLC

VARIABLES
    vm,              \* struct VirtualMachine (the fields owned by the instruction loop)
    interface,       \* struct VMInterface, the value behind Arc<Mutex<VMInterface>>
    interface_lock,  \* the thread holding the VMInterface mutex, or "none"
    stopper,         \* the bool behind Arc<Mutex<bool>>
    stopper_lock,    \* the thread holding the stopper mutex, or "none"
    timer_pc,        \* position of the timer thread in its loop
    vm_pc,           \* position of the instruction thread in its loop
    vis_pc,          \* position of the visualizer thread in its loop
    main_pc,         \* position of main between Visualizer::new and the executor
    setup_done,      \* Visualizer::setup_done: the bool and the holder of its mutex
    keys_pressed,    \* `keys_pressed` of visualizer::run, as the set of held keys
    pixel,           \* how many pixels of the frame visualizer::run has drawn
    opcode,          \* the byte pair handed to the decoder
    instruction,     \* the decoded instruction the machine is executing
    panic,           \* the panic that ended the instruction thread, or "none"
    history          \* what happened so far (read by the properties only):
                     \*   steps       instructions executed (decoded, for SpecDecode)
                     \*   last_set    the value of the latest SetDelayTimer write
                     \*   ticks_since timer ticks completed since that write
                     \*   call_sites  the program counters of the calls not yet returned

vars == <<vm, interface, interface_lock, stopper, stopper_lock, timer_pc, vm_pc,
          vis_pc, main_pc, setup_done, keys_pressed, pixel,
          opcode, instruction, panic, history>>

\* main's start-up and the locals of the visualizer thread
frontend == <<main_pc, setup_done, keys_pressed, pixel>>

\* the locks, the stop flag and the threads' positions
threads == <<interface_lock, stopper, stopper_lock, timer_pc, vm_pc, vis_pc,
             frontend>>

(***************************************************************************)
(* emulator/basics.rs                                                      *)
(***************************************************************************)
MEMORY_SIZE == 4096
SCREEN_WIDTH == 64
SCREEN_HEIGHT == 32
FONT_OFFSET == 0
STACK_DEPTH == 16

\* the widths of u8 and u16
U8 == 256
U16 == 65536
PROGRAM_START == 512

Byte == 0 .. (U8 - 1)
Nibble == 0 .. 15

Min(S) == CHOOSE m \in S : \A n \in S : m <= n

(***************************************************************************)
(* emulator/program.rs: enum Instruction.  Every variant is a record of    *)
(* the same shape; the operands a variant does not have are 0.             *)
(***************************************************************************)
Ins(op, x, y, n, addr) == [op |-> op, x |-> x, y |-> y, n |-> n, addr |-> addr]

NoInstruction == Ins("none", 0, 0, 0, 0)

\* macros NNN!, NN!, N!, X!, Y! over RawOp(u8, u8, u8, u8)
NNN(op) == op[2] * 256 + op[3] * 16 + op[4]
NN(op) == (op[3] * 16 + op[4]) % U8
N(op) == op[4]
X(op) == op[2]
\* C39 mutant: the operand y taken from the whole low byte
Y_low_byte(op) == op[3] * 16 + op[4]
Y(op) == op[3]

AnyNibble == Nibble

\* the arms of the match in Instruction::from_rawop, in the order written
Rows == <<
    [a |-> {0},  b |-> {0},     c |-> {0},  d |-> {0},  op |-> "Noop",               args |-> "none"],
    [a |-> {0},  b |-> {0},     c |-> {14}, d |-> {0},  op |-> "ClearDisplay",       args |-> "none"],
    [a |-> {0},  b |-> {0},     c |-> {14}, d |-> {14}, op |-> "ReturnSubroutine",   args |-> "none"],
    [a |-> {0},  b |-> 2 .. 15, c |-> AnyNibble,  d |-> AnyNibble,  op |-> "MachineCodeRoutine", args |-> "nnn"],
    [a |-> {1},  b |-> AnyNibble,     c |-> AnyNibble,  d |-> AnyNibble,  op |-> "Jump",               args |-> "nnn"],
    [a |-> {2},  b |-> AnyNibble,     c |-> AnyNibble,  d |-> AnyNibble,  op |-> "CallSubroutine",     args |-> "nnn"],
    [a |-> {3},  b |-> AnyNibble,     c |-> AnyNibble,  d |-> AnyNibble,  op |-> "IfNotEqualConst",    args |-> "xnn"],
    [a |-> {4},  b |-> AnyNibble,     c |-> AnyNibble,  d |-> AnyNibble,  op |-> "IfEqualConst",       args |-> "xnn"],
    [a |-> {5},  b |-> AnyNibble,     c |-> AnyNibble,  d |-> {0},  op |-> "IfNotEqual",         args |-> "xy"],
    [a |-> {6},  b |-> AnyNibble,     c |-> AnyNibble,  d |-> AnyNibble,  op |-> "SetConst",           args |-> "xnn"],
    [a |-> {7},  b |-> AnyNibble,     c |-> AnyNibble,  d |-> AnyNibble,  op |-> "AddConst",           args |-> "xnn"],
    [a |-> {8},  b |-> AnyNibble,     c |-> AnyNibble,  d |-> {0},  op |-> "Set",                args |-> "xy"],
    [a |-> {8},  b |-> AnyNibble,     c |-> AnyNibble,  d |-> {1},  op |-> "Or",                 args |-> "xy"],
    [a |-> {8},  b |-> AnyNibble,     c |-> AnyNibble,  d |-> {2},  op |-> "And",                args |-> "xy"],
    [a |-> {8},  b |-> AnyNibble,     c |-> AnyNibble,  d |-> {3},  op |-> "Xor",                args |-> "xy"],
    [a |-> {8},  b |-> AnyNibble,     c |-> AnyNibble,  d |-> {4},  op |-> "Add",                args |-> "xy"],
    [a |-> {8},  b |-> AnyNibble,     c |-> AnyNibble,  d |-> {5},  op |-> "Sub",                args |-> "xy"],
    [a |-> {8},  b |-> AnyNibble,     c |-> AnyNibble,  d |-> {6},  op |-> "RightShift",         args |-> "x"],
    [a |-> {8},  b |-> AnyNibble,     c |-> AnyNibble,  d |-> {7},  op |-> "NegSub",             args |-> "xy"],
    [a |-> {8},  b |-> AnyNibble,     c |-> AnyNibble,  d |-> {14}, op |-> "LeftShift",          args |-> "x"],
    [a |-> {9},  b |-> AnyNibble,     c |-> AnyNibble,  d |-> {0},  op |-> "IfEqual",            args |-> "xy"],
    [a |-> {10}, b |-> AnyNibble,     c |-> AnyNibble,  d |-> AnyNibble,  op |-> "SetI",               args |-> "nnn"],
    [a |-> {11}, b |-> AnyNibble,     c |-> AnyNibble,  d |-> AnyNibble,  op |-> "JumpAdd",            args |-> "nnn"],
    [a |-> {12}, b |-> AnyNibble,     c |-> AnyNibble,  d |-> AnyNibble,  op |-> "Rand",               args |-> "xnn"],
    [a |-> {13}, b |-> AnyNibble,     c |-> AnyNibble,  d |-> AnyNibble,  op |-> "Draw",               args |-> "xyn"],
    [a |-> {14}, b |-> AnyNibble,     c |-> {9},  d |-> {14}, op |-> "IfNotKey",           args |-> "x"],
    [a |-> {14}, b |-> AnyNibble,     c |-> {10}, d |-> {1},  op |-> "IfKey",              args |-> "x"],
    [a |-> {15}, b |-> AnyNibble,     c |-> {0},  d |-> {7},  op |-> "GetDelayTimer",      args |-> "x"],
    [a |-> {15}, b |-> AnyNibble,     c |-> {0},  d |-> {10}, op |-> "WaitKey",            args |-> "x"],
    [a |-> {15}, b |-> AnyNibble,     c |-> {1},  d |-> {5},  op |-> "SetDelayTimer",      args |-> "x"],
    [a |-> {15}, b |-> AnyNibble,     c |-> {1},  d |-> {8},  op |-> "SetSoundTimer",      args |-> "x"],
    [a |-> {15}, b |-> AnyNibble,     c |-> {1},  d |-> {14}, op |-> "AddToI",             args |-> "x"],
    [a |-> {15}, b |-> AnyNibble,     c |-> {2},  d |-> {9},  op |-> "SpriteAddr",         args |-> "x"],
    [a |-> {15}, b |-> AnyNibble,     c |-> {3},  d |-> {3},  op |-> "Decimal",            args |-> "x"],
    [a |-> {15}, b |-> AnyNibble,     c |-> {5},  d |-> {5},  op |-> "StoreRegisters",     args |-> "x"],
    [a |-> {15}, b |-> AnyNibble,     c |-> {6},  d |-> {5},  op |-> "LoadRegisters",      args |-> "x"] >>

\* C10 mutant: an arm that does not look at the last field
MatchesIgnoringLast(row, op) ==
    op[1] \in row.a /\ op[2] \in row.b /\ op[3] \in row.c

\* one arm's pattern against (op.0, op.1, op.2, op.3)
Matches(row, op) ==
    op[1] \in row.a /\ op[2] \in row.b /\ op[3] \in row.c /\ op[4] \in row.d

MatchingRows(op) == {i \in DOMAIN Rows : Matches(Rows[i], op)}

\* the right-hand side of an arm: the variant with its operand macros applied
Build(row, op) ==
    CASE row.args = "none" -> Ins(row.op, 0, 0, 0, 0)
      [] row.args = "nnn"  -> Ins(row.op, 0, 0, 0, NNN(op))
      [] row.args = "xnn"  -> Ins(row.op, X(op), 0, NN(op), 0)
      [] row.args = "xy"   -> Ins(row.op, X(op), Y(op), 0, 0)
      [] row.args = "x"    -> Ins(row.op, X(op), 0, 0, 0)
      [] row.args = "xyn"  -> Ins(row.op, X(op), Y(op), N(op), 0)

\* Instruction::from_rawop: the first arm that matches; the `_` arm panics.
\* The result is [panic, instruction].
from_rawop(op) ==
    IF MatchingRows(op) = {}
    THEN [panic |-> "InvalidOpcode", instruction |-> NoInstruction]
    ELSE [panic |-> "none", instruction |-> Build(Rows[Min(MatchingRows(op))], op)]

\* Instruction::from_16bit(a, b): the big-endian byte pair split into its four
\* 4-bit fields and decoded by from_rawop
from_16bit(a, b) == from_rawop(<<a \div 16, a % 16, b \div 16, b % 16>>)

(***************************************************************************)
(* emulator/vm.rs: the machine and its interface                           *)
(***************************************************************************)
\* key_down: Option<u8>; None is modelled as -1
None == -1

Pixels == (0 .. (SCREEN_WIDTH - 1)) \X (0 .. (SCREEN_HEIGHT - 1))

font_sprites == <<
    240, 144, 144, 144, 240,   32,  96,  32,  32, 112,  240,  16, 240, 128, 240,
    240,  16, 240,  16, 240,  144, 144, 240,  16,  16,  240, 128, 240,  16, 240,
    240, 128, 240, 144, 240,  240,  16,  32,  64,  64,  240, 144, 240, 144, 240,
    240, 144, 240,  16, 240,  240, 144, 240, 144, 144,  224, 144, 224, 144, 224,
    240, 128, 128, 128, 240,  224, 144, 144, 144, 224,  240, 128, 240, 128, 240,
    240, 128, 240, 128, 128 >>

\* C23 mutant: the program loaded one byte after 0x200
setup_memory_shifted(program) ==
    LET withFont(a) == IF a >= FONT_OFFSET /\ a - FONT_OFFSET < Len(font_sprites)
                       THEN font_sprites[a - FONT_OFFSET + 1] ELSE 0
        cell(a) == IF a > PROGRAM_START /\ a - PROGRAM_START <= Len(program)
                   THEN program[a - PROGRAM_START] ELSE withFont(a)
    IN  [a \in {b \in 0 .. (MEMORY_SIZE - 1) : cell(b) # 0} |-> cell(a)]

\* VirtualMachine::setup_memory: the font from FONT_OFFSET, the program from
\* 0x200, each zip ending with the shorter of memory and source
setup_memory(program) ==
    LET withFont(a) == IF a >= FONT_OFFSET /\ a - FONT_OFFSET < Len(font_sprites)
                       THEN font_sprites[a - FONT_OFFSET + 1] ELSE 0
        cell(a) == IF a >= PROGRAM_START /\ a - PROGRAM_START < Len(program)
                   THEN program[a - PROGRAM_START + 1] ELSE withFont(a)
    IN  [a \in {b \in 0 .. (MEMORY_SIZE - 1) : cell(b) # 0} |-> cell(a)]

\* memory: [Value; MEMORY_SIZE] is held as its cells that are not 0.
\* `self.memory[a]` with a < MEMORY_SIZE, read and written
memory_get(memory, a) == IF a \in DOMAIN memory THEN memory[a] ELSE 0

memory_set(memory, a, v) ==
    [b \in (IF v = 0 THEN (DOMAIN memory) \ {a} ELSE (DOMAIN memory) \cup {a}) |->
        IF b = a THEN v ELSE memory[b]]

\* struct SimpleDisplay: the set of the pixels that are on
SimpleDisplay == [kind |-> "Simple", display |-> {}]

\* FadeDisplay::new: `display` maps the pixels whose countdown is not 0 to
\* that countdown, `true_display` is the set of the pixels that are on
FadeDisplay(fade_duration) ==
    [kind |-> "Fade", fade_duration |-> fade_duration,
     display |-> << >>, true_display |-> {}]

\* Display::clear of SimpleDisplay and of FadeDisplay
display_clear(d) ==
    IF d.kind = "Simple" THEN [d EXCEPT !.display = {}]
    ELSE [d EXCEPT !.true_display = {}, !.display = << >>]

\* C19 mutant: a sink that switches pixels on and never off
display_switch_on(d, px) ==
    IF d.kind = "Simple"
    THEN [d EXCEPT !.display = @ \cup {px}]
    ELSE [d EXCEPT !.true_display = @ \cup {px},
                   !.display = [q \in (DOMAIN @) \cup {px} |->
                                   IF q = px THEN d.fade_duration ELSE @[q]]]

\* one coordinate of Display::draw_pixels
display_toggle(d, px) ==
    IF d.kind = "Simple"
    THEN [d EXCEPT !.display = IF px \in @ THEN @ \ {px} ELSE @ \cup {px}]
    ELSE IF px \in d.true_display
    THEN [d EXCEPT !.true_display = @ \ {px}]
    ELSE [d EXCEPT !.true_display = @ \cup {px},
                   !.display = [q \in (DOMAIN @) \cup {px} |->
                                   IF q = px THEN d.fade_duration ELSE @[q]]]

\* Display::draw_pixels: every coordinate of the list inverted, in order
RECURSIVE display_draw_pixels(_, _, _)
display_draw_pixels(d, pixels, i) ==
    IF i > Len(pixels) THEN d
    ELSE display_draw_pixels(display_toggle(d, pixels[i]), pixels, i + 1)

\* Display::get of SimpleDisplay and of FadeDisplay
display_get(d, x, y) ==
    IF d.kind = "Simple" THEN (IF <<x, y>> \in d.display THEN 255 ELSE 0)
    ELSE IF <<x, y>> \in DOMAIN d.display
    THEN ((d.display[<<x, y>>] * 255) \div d.fade_duration) % U8
    ELSE 0

\* VirtualMachine::new, the VMInterface it builds
NewInterface ==
    [delay_timer |-> 0, sound_timer |-> 0, key_down |-> None, display |-> SimpleDisplay]

\* VirtualMachine::new, the machine fields
NewVm(program) ==
    [program_counter |-> PROGRAM_START,
     stack           |-> << >>,
     registers       |-> [r \in 0 .. 15 |-> 0],
     register_i      |-> 0,
     memory          |-> setup_memory(program),
     logical_display |-> {}]

(***************************************************************************)
(* emulator/vm.rs: execute_instruction.  A result is the machine, the      *)
(* interface and the panic that ended the call ("none" when it returned).  *)
(* `checked` says whether the build traps integer overflow (a debug build  *)
(* panics, a release build wraps); `rnd` is the byte thread_rng returned.  *)
(***************************************************************************)
Ok(m, f) == [vm |-> m, interface |-> f, panic |-> "none"]
Fail(m, f, kind) == [vm |-> m, interface |-> f, panic |-> kind]

BitAnd(a, b) ==
    LET RECURSIVE go(_, _, _)
        go(p, q, k) == IF k = 0 THEN 0
                       ELSE (IF p % 2 = 1 /\ q % 2 = 1 THEN 1 ELSE 0)
                            + 2 * go(p \div 2, q \div 2, k - 1)
    IN go(a, b, 8)
BitOr(a, b) ==
    LET RECURSIVE go(_, _, _)
        go(p, q, k) == IF k = 0 THEN 0
                       ELSE (IF p % 2 = 1 \/ q % 2 = 1 THEN 1 ELSE 0)
                            + 2 * go(p \div 2, q \div 2, k - 1)
    IN go(a, b, 8)
BitXor(a, b) ==
    LET RECURSIVE go(_, _, _)
        go(p, q, k) == IF k = 0 THEN 0
                       ELSE (IF p % 2 # q % 2 THEN 1 ELSE 0)
                            + 2 * go(p \div 2, q \div 2, k - 1)
    IN go(a, b, 8)

\* `self.program_counter.0 += 2` on a u16
pc_add2(m, f, checked) ==
    IF m.program_counter + 2 >= U16 /\ checked
    THEN Fail(m, f, "Overflow")
    ELSE Ok([m EXCEPT !.program_counter = (@ + 2) % U16], f)

\* VirtualMachine::set_vf
set_vf(m, value) == [m EXCEPT !.registers[15] = value]

\* C8 mutant: a return on an empty stack that is silently ignored
return_subroutine_ignoring_empty(m, f) ==
    IF Len(m.stack) > 0
    THEN Ok([m EXCEPT !.program_counter = m.stack[Len(m.stack)],
                      !.stack = SubSeq(m.stack, 1, Len(m.stack) - 1)], f)
    ELSE Ok(m, f)

\* VirtualMachine::return_subroutine
return_subroutine(m, f) ==
    IF Len(m.stack) > 0
    THEN Ok([m EXCEPT !.program_counter = m.stack[Len(m.stack)],
                      !.stack = SubSeq(m.stack, 1, Len(m.stack) - 1)], f)
    ELSE Fail(m, f, "StackUnderflow")

\* C7 mutant: the depth check written with > instead of >=
call_subroutine_off_by_one(m, f, addr) ==
    IF Len(m.stack) > STACK_DEPTH
    THEN Fail(m, f, "StackOverflow")
    ELSE Ok([m EXCEPT !.stack = Append(m.stack, m.program_counter),
                      !.program_counter = addr], f)

\* C9 mutant: the program counter overwritten before it is pushed
call_subroutine_pushing_target(m, f, addr) ==
    IF Len(m.stack) >= STACK_DEPTH
    THEN Fail(m, f, "StackOverflow")
    ELSE Ok([m EXCEPT !.stack = Append(m.stack, addr),
                      !.program_counter = addr], f)

\* VirtualMachine::call_subroutine
call_subroutine(m, f, addr) ==
    IF Len(m.stack) >= STACK_DEPTH
    THEN Fail(m, f, "StackOverflow")
    ELSE Ok([m EXCEPT !.stack = Append(m.stack, m.program_counter),
                      !.program_counter = addr], f)

\* C18 mutant: the sink not told
clear_display_logical_only(m, f) == Ok([m EXCEPT !.logical_display = {}], f)

\* VirtualMachine::clear_display
clear_display(m, f) ==
    Ok([m EXCEPT !.logical_display = {}],
       [f EXCEPT !.display = display_clear(@)])

\* C17 mutant: the flag of the last pixel only
RECURSIVE draw_pixel_flag_last(_, _, _)
draw_pixel_flag_last(m, pixels, i) ==
    IF i > Len(pixels) THEN m
    ELSE LET was_on == pixels[i] \in m.logical_display
             toggled == [m EXCEPT !.logical_display =
                            IF was_on THEN @ \ {pixels[i]} ELSE @ \cup {pixels[i]}]
         IN draw_pixel_flag_last(set_vf(toggled, IF was_on THEN 1 ELSE 0),
                                 pixels, i + 1)

\* VirtualMachine::draw_pixel, folded over the list by draw_pixels
RECURSIVE draw_pixel_each(_, _, _)
draw_pixel_each(m, pixels, i) ==
    IF i > Len(pixels) THEN m
    ELSE LET was_on == pixels[i] \in m.logical_display
             toggled == [m EXCEPT !.logical_display =
                            IF was_on THEN @ \ {pixels[i]} ELSE @ \cup {pixels[i]}]
         IN draw_pixel_each(IF was_on THEN set_vf(toggled, 1) ELSE toggled,
                            pixels, i + 1)

\* C33 mutant: the sink is handed the list without its last coordinate
draw_pixels_sink_short(m, f, pixels) ==
    Ok(draw_pixel_each(m, pixels, 1),
       [f EXCEPT !.display =
           display_draw_pixels(@, SubSeq(pixels, 1, Len(pixels) - 1), 1)])

\* VirtualMachine::draw_pixels
draw_pixels(m, f, pixels) ==
    Ok(draw_pixel_each(m, pixels, 1),
       [f EXCEPT !.display = display_draw_pixels(@, pixels, 1)])

\* VirtualMachine::draw_shape.  The loop stops at the first row whose byte
\* lies outside the memory or, in a checked build, whose coordinate sum
\* overflows the u8; nothing has been toggled by then.
draw_shape(m, f, vx, vy, n, checked) ==
    LET m0 == set_vf(m, 0)
        x0 == m0.registers[vx]
        y0 == m0.registers[vy]
        Outside(y_off) == m0.register_i + y_off >= MEMORY_SIZE
        Bit(y_off, x_off) ==
            (memory_get(m0.memory, m0.register_i + y_off) \div (2 ^ (7 - x_off))) % 2 = 1
        Overflows(y_off) ==
            \E x_off \in 0 .. 7 :
                Bit(y_off, x_off) /\ (x0 + x_off >= U8 \/ y0 + y_off >= U8)
        failing == {y_off \in 0 .. (n - 1) :
                        Outside(y_off) \/ (checked /\ Overflows(y_off))}
        cells == [k \in 1 .. (n * 8) |-> <<(k - 1) \div 8, (k - 1) % 8>>]
        Lit(c) == Bit(c[1], c[2])
        lit == SelectSeq(cells, Lit)
        pixels == [k \in 1 .. Len(lit) |->
                      << ((x0 + lit[k][2]) % U8) % SCREEN_WIDTH,
                         ((y0 + lit[k][1]) % U8) % SCREEN_HEIGHT >>]
    IN  IF failing # {}
        THEN Fail(m0, f, IF Outside(Min(failing)) THEN "IndexOutOfBounds"
                         ELSE "Overflow")
        ELSE draw_pixels(m0, f, pixels)

\* the register operands an instruction names (self.register asserts reg.0 < 16)
RegistersOf(ins) ==
    CASE ins.op \in {"IfNotEqualConst", "IfEqualConst", "SetConst", "AddConst",
                     "RightShift", "LeftShift", "IfNotKey", "IfKey", "WaitKey",
                     "SpriteAddr", "GetDelayTimer", "SetDelayTimer",
                     "SetSoundTimer", "AddToI", "Decimal", "Rand"} -> {ins.x}
      [] ins.op \in {"IfNotEqual", "IfEqual", "Set", "Or", "And", "Xor", "Add",
                     "Sub", "NegSub", "Draw"} -> {ins.x, ins.y}
      [] ins.op \in {"StoreRegisters", "LoadRegisters"} -> 0 .. ins.x
      [] OTHER -> {}

\* C11 mutant: the skip taken when the condition fails
skip_inverted(m, f, cond, checked) == IF ~cond THEN pc_add2(m, f, checked) ELSE Ok(m, f)

\* `self.program_counter.0 += 2` of a skip
skip(m, f, cond, checked) == IF cond THEN pc_add2(m, f, checked) ELSE Ok(m, f)

\* C25 mutant: StoreRegisters over the exclusive range 0..vx
store_registers_exclusive(m, f, vx) ==
    IF m.register_i + vx >= MEMORY_SIZE THEN Fail(m, f, "IndexOutOfBounds")
    ELSE LET written == m.register_i .. (m.register_i + vx - 1)
             cell(a) == IF a \in written THEN m.registers[a - m.register_i]
                        ELSE memory_get(m.memory, a)
         IN  Ok([m EXCEPT !.memory =
                    [a \in {b \in (DOMAIN @) \cup written : cell(b) # 0} |-> cell(a)]], f)

\* the arms of StoreRegisters and LoadRegisters: the inclusive range 0..=vx
store_registers(m, f, vx) ==
    IF m.register_i + vx >= MEMORY_SIZE THEN Fail(m, f, "IndexOutOfBounds")
    ELSE LET written == m.register_i .. (m.register_i + vx)
             cell(a) == IF a \in written THEN m.registers[a - m.register_i]
                        ELSE memory_get(m.memory, a)
         IN  Ok([m EXCEPT !.memory =
                    [a \in {b \in (DOMAIN @) \cup written : cell(b) # 0} |-> cell(a)]], f)

load_registers(m, f, vx) ==
    IF m.register_i + vx >= MEMORY_SIZE THEN Fail(m, f, "IndexOutOfBounds")
    ELSE Ok([m EXCEPT !.registers =
                [r \in 0 .. 15 |->
                    IF r <= vx THEN memory_get(m.memory, m.register_i + r) ELSE @[r]]], f)

\* C24 mutant: the ones digit taken as value mod 100
decimal_ones_mod_100(m, f, vx) ==
    LET index == m.register_i
        value == m.registers[vx]
    IN  IF index + 2 >= MEMORY_SIZE THEN Fail(m, f, "IndexOutOfBounds")
        ELSE Ok([m EXCEPT !.memory =
                    memory_set(memory_set(memory_set(@, index, value \div 100),
                                          index + 1, (value \div 10) % 10),
                               index + 2, value % 100)], f)

\* the arm of Decimal
decimal(m, f, vx) ==
    LET index == m.register_i
        value == m.registers[vx]
    IN  IF index + 2 >= MEMORY_SIZE THEN Fail(m, f, "IndexOutOfBounds")
        ELSE Ok([m EXCEPT !.memory =
                    memory_set(memory_set(memory_set(@, index, value \div 100),
                                          index + 1, (value \div 10) % 10),
                               index + 2, value % 10)], f)

\* the arms of GetDelayTimer, SetDelayTimer and SetSoundTimer
get_delay_timer(m, f, vx) == Ok([m EXCEPT !.registers[vx] = f.delay_timer], f)

\* C3 mutant: the write goes to the other timer
set_delay_timer_to_sound(m, f, vx) == Ok(m, [f EXCEPT !.sound_timer = m.registers[vx]])

set_delay_timer(m, f, vx) == Ok(m, [f EXCEPT !.delay_timer = m.registers[vx]])

set_sound_timer(m, f, vx) == Ok(m, [f EXCEPT !.sound_timer = m.registers[vx]])

\* C37 mutant: the result first, the flag last
x_then_flag(m, f, x, flag, v) == Ok(set_vf([m EXCEPT !.registers[x] = v], flag), f)

\* `self.set_vf(flag); *self.register(&vx) = Value(v)`: the flag first,
\* the result last
flag_then_x(m, f, x, flag, v) == Ok([set_vf(m, flag) EXCEPT !.registers[x] = v], f)

\* C12 mutant: the carry already reported for a sum of 255
add_carry_from_255(m, f, x, y) ==
    LET a == m.registers[x]
        b == m.registers[y]
    IN  flag_then_x(m, f, x, IF a + b >= U8 - 1 THEN 1 ELSE 0, (a + b) % U8)

\* the arm of Add: checked_add(..).is_none(), wrapping_add
add(m, f, x, y) ==
    LET a == m.registers[x]
        b == m.registers[y]
    IN  flag_then_x(m, f, x, IF a + b >= U8 THEN 1 ELSE 0, (a + b) % U8)

\* C13 mutant: the flag also set for equal operands
sub_flag_on_equal(m, f, x, y) ==
    LET a == m.registers[x]
        b == m.registers[y]
    IN  flag_then_x(m, f, x, IF a >= b THEN 1 ELSE 0, (a - b) % U8)

\* the arms of Sub and NegSub: `>` for the flag, wrapping_sub
sub(m, f, x, y) ==
    LET a == m.registers[x]
        b == m.registers[y]
    IN  flag_then_x(m, f, x, IF a > b THEN 1 ELSE 0, (a - b) % U8)

neg_sub(m, f, x, y) ==
    LET a == m.registers[x]
        b == m.registers[y]
    IN  flag_then_x(m, f, x, IF b > a THEN 1 ELSE 0, (b - a) % U8)

\* C14 mutant: the flag taken from the highest bit
right_shift_flag_high(m, f, x) ==
    LET a == m.registers[x]
    IN  flag_then_x(m, f, x, a \div 128, a \div 2)

\* the arms of RightShift and LeftShift: `& 1` and `>> 1`, `& 128 > 0` and `<< 1`
right_shift(m, f, x) ==
    LET a == m.registers[x]
    IN  flag_then_x(m, f, x, BitAnd(a, 1), a \div 2)

left_shift(m, f, x) ==
    LET a == m.registers[x]
    IN  flag_then_x(m, f, x, IF BitAnd(a, 128) > 0 THEN 1 ELSE 0, (a * 2) % U8)

\* C15 mutant: AddConst reporting a carry
add_const_with_carry(m, f, x, n) ==
    flag_then_x(m, f, x, IF m.registers[x] + n >= U8 THEN 1 ELSE 0,
                (m.registers[x] + n) % U8)

\* the arm of AddConst: wrapping_add
add_const(m, f, x, n) == Ok([m EXCEPT !.registers[x] = (@ + n) % U8], f)

\* C20 mutant: the skip taken for any pressed key
if_not_key_any_key(m, f, x, checked) ==
    skip(m, f, f.key_down # None, checked)

\* the arms of IfNotKey and IfKey: target_key against the locked read of
\* key_down
if_not_key(m, f, x, checked) ==
    skip(m, f, f.key_down # None /\ f.key_down = m.registers[x], checked)

\* C21 mutant: IfKey skipping only while no key is pressed
if_key_only_without_key(m, f, x, checked) ==
    skip(m, f, f.key_down = None, checked)

if_key(m, f, x, checked) ==
    skip(m, f, f.key_down = None \/ f.key_down # m.registers[x], checked)

\* C40 mutant: WaitKey stepping back whatever key is pressed
wait_key_deaf(m, f, x) == Ok([m EXCEPT !.program_counter = (@ - 2) % U16], f)

\* C22 mutant: WaitKey without the step back of the program counter
wait_key_advancing(m, f, x) ==
    IF f.key_down # None THEN Ok([m EXCEPT !.registers[x] = f.key_down], f)
    ELSE Ok(m, f)

\* the arm of WaitKey: the pressed key into reg[x], or the program counter
\* back onto this instruction
wait_key(m, f, x) ==
    IF f.key_down # None THEN Ok([m EXCEPT !.registers[x] = f.key_down], f)
    ELSE Ok([m EXCEPT !.program_counter = (@ - 2) % U16], f)

\* C26 mutant: glyphs taken to be four bytes apart
sprite_addr_four_apart(m, f, x) ==
    Ok([m EXCEPT !.register_i = FONT_OFFSET + m.registers[x] * 4], f)

\* the arm of SpriteAddr: FONT_OFFSET + (digit as u16) * 5
sprite_addr(m, f, x) ==
    Ok([m EXCEPT !.register_i = FONT_OFFSET + m.registers[x] * 5], f)

\* the match of execute_instruction, after the program counter was advanced
execute_arm(m, f, ins, checked, rnd) ==
    LET reg == m.registers
        x == ins.x
        y == ins.y
        SetX(v) == Ok([m EXCEPT !.registers[x] = v], f)
    IN
    CASE ins.op = "CallSubroutine" -> call_subroutine(m, f, ins.addr)
      [] ins.op = "ReturnSubroutine" -> return_subroutine(m, f)
      [] ins.op = "Jump" -> Ok([m EXCEPT !.program_counter = ins.addr], f)
      [] ins.op = "JumpAdd" ->
            IF ins.addr + reg[0] >= U16 /\ checked THEN Fail(m, f, "Overflow")
            ELSE Ok([m EXCEPT !.program_counter = (ins.addr + reg[0]) % U16], f)
      [] ins.op = "IfNotEqualConst" -> skip(m, f, reg[x] = ins.n, checked)
      [] ins.op = "IfEqualConst" -> skip(m, f, reg[x] # ins.n, checked)
      [] ins.op = "IfNotEqual" -> skip(m, f, reg[x] = reg[y], checked)
      [] ins.op = "IfEqual" -> skip(m, f, reg[x] # reg[y], checked)
      [] ins.op = "SetConst" -> SetX(ins.n)
      [] ins.op = "AddConst" -> add_const(m, f, x, ins.n)
      [] ins.op = "Set" -> SetX(reg[y])
      [] ins.op = "Or" -> SetX(BitOr(reg[x], reg[y]))
      [] ins.op = "And" -> SetX(BitAnd(reg[x], reg[y]))
      [] ins.op = "Xor" -> SetX(BitXor(reg[x], reg[y]))
      [] ins.op = "Add" -> add(m, f, x, y)
      [] ins.op = "Sub" -> sub(m, f, x, y)
      [] ins.op = "NegSub" -> neg_sub(m, f, x, y)
      [] ins.op = "RightShift" -> right_shift(m, f, x)
      [] ins.op = "LeftShift" -> left_shift(m, f, x)
      [] ins.op = "IfNotKey" -> if_not_key(m, f, x, checked)
      [] ins.op = "IfKey" -> if_key(m, f, x, checked)
      [] ins.op = "WaitKey" -> wait_key(m, f, x)
      [] ins.op = "Draw" -> draw_shape(m, f, x, y, ins.n, checked)
      [] ins.op = "ClearDisplay" -> clear_display(m, f)
      [] ins.op = "SpriteAddr" -> sprite_addr(m, f, x)
      [] ins.op = "GetDelayTimer" -> get_delay_timer(m, f, x)
      [] ins.op = "SetDelayTimer" -> set_delay_timer(m, f, x)
      [] ins.op = "SetSoundTimer" -> set_sound_timer(m, f, x)
      [] ins.op = "SetI" -> Ok([m EXCEPT !.register_i = ins.addr], f)
      [] ins.op = "AddToI" ->
            IF m.register_i + reg[x] >= U16 /\ checked THEN Fail(m, f, "Overflow")
            ELSE Ok([m EXCEPT !.register_i = (@ + reg[x]) % U16], f)
      [] ins.op = "Decimal" -> decimal(m, f, x)
      [] ins.op = "StoreRegisters" -> store_registers(m, f, x)
      [] ins.op = "LoadRegisters" -> load_registers(m, f, x)
      [] ins.op = "Noop" -> Ok(m, f)
      [] ins.op = "Rand" -> SetX(BitAnd(rnd, ins.n))
      [] ins.op = "MachineCodeRoutine" -> Fail(m, f, "UnsupportedRoutine")

\* VirtualMachine::execute_instruction
execute_instruction(m, f, ins, checked, rnd) ==
    LET advanced == pc_add2(m, f, checked)
    IN  IF advanced.panic # "none" THEN advanced
        ELSE IF \E r \in RegistersOf(ins) : r >= 16
        THEN Fail(advanced.vm, f, "InvalidRegister")
        ELSE execute_arm(advanced.vm, f, ins, checked, rnd)

\* the values rand::thread_rng().gen_range(0, 255) can return
RandRange == 0 .. 254

\* VirtualMachine::current_instruction: [panic, instruction]
current_instruction(m) ==
    IF m.program_counter + 1 >= MEMORY_SIZE
    THEN [panic |-> "IndexOutOfBounds", instruction |-> NoInstruction]
    ELSE from_16bit(memory_get(m.memory, m.program_counter),
                    memory_get(m.memory, m.program_counter + 1))

(***************************************************************************)
(* The state every specification starts from: a machine just created from  *)
(* `program`, no thread started.                                           *)
(***************************************************************************)
Created(program) ==
    /\ vm = NewVm(program)
    /\ interface = NewInterface
    /\ interface_lock = "none"
    /\ stopper = FALSE
    /\ stopper_lock = "none"
    /\ timer_pc = "unspawned"
    /\ vm_pc = "unspawned"
    /\ vis_pc = "unspawned"
    /\ main_pc = "start"
    /\ setup_done = [done |-> FALSE, lock |-> "none"]
    /\ keys_pressed = {}
    /\ pixel = 0
    /\ opcode = <<0, 0>>
    /\ instruction = NoInstruction
    /\ panic = "none"
    /\ history = [steps |-> 0, last_set |-> 0, ticks_since |-> 0, call_sites |-> << >>]

(***************************************************************************)
(* SpecDecode: Instruction::from_16bit applied to every byte pair.         *)
(***************************************************************************)
InitDecode ==
    /\ Created(<< >>)

Decode ==
    /\ history.steps = 0
    /\ \E a \in Byte, b \in Byte :
          /\ opcode' = <<a, b>>
          /\ instruction' = from_16bit(a, b).instruction
          /\ panic' = from_16bit(a, b).panic
    /\ history' = [history EXCEPT !.steps = 1]
    /\ UNCHANGED <<vm, interface, threads>>

NextDecode == Decode

SpecDecode == InitDecode /\ [][NextDecode]_vars

\* the four 4-bit fields of the byte pair last decoded
Field(k) ==
    CASE k = 1 -> opcode[1] \div 16
      [] k = 2 -> opcode[1] % 16
      [] k = 3 -> opcode[2] \div 16
      [] k = 4 -> opcode[2] % 16

\* the dispatch table of the specification, section 4.1: the fields that
\* some row of the table accepts
InDispatchTable(a, b, c, d) ==
    \/ a = 0 /\ b = 0 /\ c = 0 /\ d = 0
    \/ a = 0 /\ b = 0 /\ c = 14 /\ d \in {0, 14}
    \/ a = 0 /\ b \in 2 .. 15
    \/ a \in {1, 2, 3, 4, 6, 7, 10, 11, 12, 13}
    \/ a \in {5, 9} /\ d = 0
    \/ a = 8 /\ d \in {0, 1, 2, 3, 4, 5, 6, 7, 14}
    \/ a = 14 /\ <<c, d>> \in {<<9, 14>>, <<10, 1>>}
    \/ a = 15 /\ <<c, d>> \in {<<0, 7>>, <<0, 10>>, <<1, 5>>, <<1, 8>>, <<1, 14>>,
                               <<2, 9>>, <<3, 3>>, <<5, 5>>, <<6, 5>>}

\* the words the claim lists as invalid: 0x01NN, 0x00E1, 0x5XY1, 0x8XY8,
\* 0xEX00, 0xFX00
ListedInvalid(a, b, c, d) ==
    \/ a = 0 /\ b = 1
    \/ a = 0 /\ b = 0 /\ c = 14 /\ d = 1
    \/ a = 5 /\ d = 1
    \/ a = 8 /\ d = 8
    \/ a \in {14, 15} /\ c = 0 /\ d = 0

\* C10: decoding is total and deterministic: every byte pair matches at most
\* one arm and yields that arm's variant with the operands taken from its
\* fields, and exactly the pairs matching no row of the dispatch table fail
\* with InvalidOpcode (among them the listed 0x01NN, 0x00E1, 0x5XY1, 0x8XY8,
\* 0xEX00, 0xFX00).
C10_DecodeTotal ==
    history.steps = 1 =>
        LET a == Field(1)
            b == Field(2)
            c == Field(3)
            d == Field(4)
            rows == MatchingRows(<<a, b, c, d>>)
        IN  /\ Cardinality(rows) <= 1
            /\ panic \in {"none", "InvalidOpcode"}
            /\ (panic = "InvalidOpcode") <=> ~InDispatchTable(a, b, c, d)
            /\ (panic = "InvalidOpcode") <=> (rows = {})
            /\ (panic = "InvalidOpcode") <=> (instruction = NoInstruction)
            /\ ListedInvalid(a, b, c, d) => panic = "InvalidOpcode"
            /\ \A i \in rows :
                  /\ instruction.op = Rows[i].op
                  /\ instruction.x = (IF Rows[i].args \in {"xnn", "xy", "x", "xyn"}
                                      THEN b ELSE 0)
                  /\ instruction.y = (IF Rows[i].args \in {"xy", "xyn"} THEN c ELSE 0)
                  /\ instruction.n = (CASE Rows[i].args = "xnn" -> opcode[2]
                                        [] Rows[i].args = "xyn" -> d
                                        [] OTHER -> 0)
                  /\ instruction.addr = (IF Rows[i].args = "nnn"
                                         THEN (opcode[1] % 16) * 256 + opcode[2]
                                         ELSE 0)

\* C10 witness: the byte pair 0x01 0x23 was decoded and failed
C10_Witness ==
    history.steps = 1 /\ opcode = <<1, 35>> /\ panic = "InvalidOpcode"

(***************************************************************************)
(* Instructions executed one after the other on one machine, as the tests  *)
(* of vm.rs do with execute_instruction.                                   *)
(***************************************************************************)
\* the bytes thread_rng can return to this instruction
RandChoices(ins) == IF ins.op = "Rand" THEN RandRange ELSE {0}

\* the history after instruction `ins` was executed on machine m with result r
Recorded(h, m, ins, r) ==
    [h EXCEPT
        !.steps = @ + 1,
        !.call_sites =
            IF r.panic = "none" /\ ins.op = "CallSubroutine"
            THEN Append(@, m.program_counter)
            ELSE IF r.panic = "none" /\ ins.op = "ReturnSubroutine"
            THEN SubSeq(@, 1, Len(@) - 1)
            ELSE @,
        !.last_set =
            IF r.panic = "none" /\ ins.op = "SetDelayTimer" THEN m.registers[ins.x] ELSE @,
        !.ticks_since =
            IF r.panic = "none" /\ ins.op = "SetDelayTimer" THEN 0 ELSE @]

\* one call of execute_instruction with an instruction of `instrs`; a panic
\* ends the run
Execute(instrs, maxSteps) ==
    /\ panic = "none"
    /\ history.steps < maxSteps
    /\ \E ins \in instrs, checked \in BOOLEAN :
         \E rnd \in RandChoices(ins) :
            LET r == execute_instruction(vm, interface, ins, checked, rnd)
            IN  /\ vm' = r.vm
                /\ interface' = r.interface
                /\ panic' = r.panic
                /\ instruction' = ins
                /\ history' = Recorded(history, vm, ins, r)
    /\ UNCHANGED <<threads, opcode>>

(***************************************************************************)
(* SpecStack: one call target, called again and again, with returns and    *)
(* no-ops in between.  A run executes at most MaxDetour instructions more  *)
(* than its stack is deep, so that the stack can fill up.                  *)
(***************************************************************************)
MaxDetour == 4

StackInstructions ==
    {Ins("CallSubroutine", 0, 0, 0, 768),
     Ins("ReturnSubroutine", 0, 0, 0, 0),
     Ins("Noop", 0, 0, 0, 0)}

InitStack == Created(<< >>)

NextStack == Execute(StackInstructions, Len(vm.stack) + MaxDetour)

SpecStack == InitStack /\ [][NextStack]_vars

(***************************************************************************)
(* SpecCalls: short runs of calls to several targets, returns, jumps and   *)
(* no-ops.                                                                 *)
(***************************************************************************)
MaxCallSteps == 6

CallTargets == {123, 456}

CallInstructions ==
    {Ins("CallSubroutine", 0, 0, 0, a) : a \in CallTargets}
        \cup {Ins("ReturnSubroutine", 0, 0, 0, 0),
              Ins("Noop", 0, 0, 0, 0),
              Ins("Jump", 0, 0, 0, 50)}

InitCalls == Created(<< >>)

NextCalls == Execute(CallInstructions, MaxCallSteps)

SpecCalls == InitCalls /\ [][NextCalls]_vars

\* an instruction was executed by this step
Executed == history'.steps = history.steps + 1

\* C7: in every state reachable by any sequence of instructions from a newly
\* created machine, the call stack holds at most 16 addresses.
C7_StackBounded == Len(vm.stack) <= 16

\* C7 witness: sixteen calls are outstanding
C7_Witness == Len(vm.stack) = 16 /\ panic = "none" /\ instruction.op = "CallSubroutine"

\* C8: a CallSubroutine executed with 16 addresses on the stack panics with
\* StackOverflow and pushes nothing, and with fewer it succeeds and pushes
\* one; a ReturnSubroutine executed with an empty stack panics with
\* StackUnderflow, and with a non-empty stack it succeeds.
C8_StackErrors ==
    [][Executed =>
        /\ instruction'.op = "CallSubroutine" =>
              IF Len(vm.stack) = 16
              THEN panic' = "StackOverflow" /\ vm'.stack = vm.stack
              ELSE panic' = "none" /\ Len(vm'.stack) = Len(vm.stack) + 1
        /\ instruction'.op = "ReturnSubroutine" =>
              IF Len(vm.stack) = 0
              THEN panic' = "StackUnderflow" /\ vm'.stack = vm.stack
              ELSE panic' = "none" /\ Len(vm'.stack) = Len(vm.stack) - 1
    ]_vars

\* C8 witness: the 17th of 17 consecutive calls has panicked
C8_Witness ==
    /\ panic = "StackOverflow"
    /\ history.steps = 17
    /\ Len(vm.stack) = 16
    /\ instruction.op = "CallSubroutine"

\* C9: CallSubroutine(a) executed at program counter p pushes p + 2 and sets
\* the program counter to a; the ReturnSubroutine that matches it pops that
\* address and sets the program counter to p + 2, where p is the place of
\* the innermost call not yet returned, and leaves the stack as it was
\* before that call; no other instruction changes the stack.
C9_CallReturnLifo ==
    [][(Executed /\ panic' = "none") =>
        LET sites == history.call_sites
        IN
        /\ instruction'.op = "CallSubroutine" =>
              /\ vm'.stack = Append(vm.stack, vm.program_counter + 2)
              /\ vm'.program_counter = instruction'.addr
        /\ instruction'.op = "ReturnSubroutine" =>
              /\ Len(sites) = Len(vm.stack)
              /\ vm'.program_counter = sites[Len(sites)] + 2
              /\ vm'.stack = SubSeq(vm.stack, 1, Len(sites) - 1)
        /\ instruction'.op \notin {"CallSubroutine", "ReturnSubroutine"} =>
              vm'.stack = vm.stack
    ]_vars

\* C9 witness: two nested calls have both returned; the machine is back
\* behind the outer call, made at 0x200, with an empty stack
C9_Witness ==
    /\ history.steps = 4
    /\ instruction.op = "ReturnSubroutine"
    /\ panic = "none"
    /\ vm.stack = << >>
    /\ vm.program_counter = PROGRAM_START + 2

(***************************************************************************)
(* Spec: the run of the emulator.  The visualizer thread injects its sink  *)
(* and loops over its critical sections; Executor::run_concurrent_until    *)
(* spawns the timer loop and the instruction loop; the caller sets the     *)
(* stop flag at any time.  Each mutex is the name of the thread holding    *)
(* it; a thread takes a mutex only when nobody holds it.                   *)
(***************************************************************************)
\* the timer loop sleeps on after this many ticks since the latest
\* SetDelayTimer, until the stop flag is set
MaxTicks == 2

\* the values the timer program loads
TimerValues == {2, 255}

\* the keys of the keymap
Keys == {4}

\* display_fade of the configuration
DisplayFades == {3}

\* 6v00: V0 = v; F015: delay = V0; F018: sound = V0; F107: V1 = delay; 1202
TimerProgram(v) == <<96, v, 240, 21, 240, 24, 241, 7, 18, 2>>

\* F00A: wait for a key into V0; E09E; 00E0: clear; D001: draw; 1200
KeyProgram == <<240, 10, 224, 158, 0, 224, 208, 1, 18, 0>>

Programs == {TimerProgram(v) : v \in TimerValues} \cup {KeyProgram}

Init == \E program \in Programs : Created(program)

\* the instructions that lock the interface
UsesInterface(ins) ==
    ins.op \in {"IfNotKey", "IfKey", "WaitKey", "Draw", "ClearDisplay",
                "GetDelayTimer", "SetDelayTimer", "SetSoundTimer"}

\* ---- the caller: main.rs and `*stop_vm.lock().unwrap() = true`
SpawnVisualizer ==
    /\ vis_pc = "unspawned"
    /\ vis_pc' = "inject_lock"
    /\ UNCHANGED <<frontend, vm, interface, interface_lock, stopper, stopper_lock, timer_pc,
                   vm_pc, opcode, instruction, panic, history>>

\* run_concurrent_until, first thread::spawn; main calls it after wait_for_init
SpawnTimer ==
    /\ timer_pc = "unspawned"
    /\ vis_pc \notin {"unspawned", "inject_lock", "inject"}
    /\ timer_pc' = "check"
    /\ UNCHANGED <<frontend, vm, interface, interface_lock, stopper, stopper_lock, vm_pc,
                   vis_pc, opcode, instruction, panic, history>>

\* run_concurrent_until, second thread::spawn
SpawnVm ==
    /\ vm_pc = "unspawned"
    /\ timer_pc # "unspawned"
    /\ vm_pc' = "check"
    /\ UNCHANGED <<frontend, vm, interface, interface_lock, stopper, stopper_lock, timer_pc,
                   vis_pc, opcode, instruction, panic, history>>

MainLockStopper ==
    /\ ~stopper
    /\ stopper_lock = "none"
    /\ stopper_lock' = "main"
    /\ UNCHANGED <<frontend, vm, interface, interface_lock, stopper, timer_pc, vm_pc, vis_pc,
                   opcode, instruction, panic, history>>

MainSetStopper ==
    /\ stopper_lock = "main"
    /\ stopper' = TRUE
    /\ stopper_lock' = "none"
    /\ UNCHANGED <<frontend, vm, interface, interface_lock, timer_pc, vm_pc, vis_pc,
                   opcode, instruction, panic, history>>

\* ---- the timer loop, executor.rs lines 31 to 45
TimerLockStopper ==
    /\ timer_pc = "check"
    /\ history.ticks_since < MaxTicks \/ stopper
    /\ stopper_lock = "none"
    /\ stopper_lock' = "timer"
    /\ timer_pc' = "read_stop"
    /\ UNCHANGED <<frontend, vm, interface, interface_lock, stopper, vm_pc, vis_pc,
                   opcode, instruction, panic, history>>

\* C36 mutant: the guard of the stop flag kept while the interface is locked
TimerReadStopperKeepingLock ==
    /\ timer_pc = "read_stop"
    /\ timer_pc' = IF stopper THEN "done" ELSE "lock"
    /\ UNCHANGED <<stopper_lock, frontend, vm, interface, interface_lock, stopper, vm_pc, vis_pc,
                   opcode, instruction, panic, history>>

TimerReadStopper ==
    /\ timer_pc = "read_stop"
    /\ stopper_lock' = "none"
    /\ timer_pc' = IF stopper THEN "done" ELSE "lock"
    /\ UNCHANGED <<frontend, vm, interface, interface_lock, stopper, vm_pc, vis_pc,
                   opcode, instruction, panic, history>>

TimerLockInterface ==
    /\ timer_pc = "lock"
    /\ interface_lock = "none"
    /\ interface_lock' = "timer"
    /\ timer_pc' = "delay"
    /\ UNCHANGED <<frontend, vm, interface, stopper, stopper_lock, vm_pc, vis_pc,
                   opcode, instruction, panic, history>>

\* C1 mutant: `-= 1` of a release build without the `> 0` test
tick_wrapping(t) == (t - 1) % U8

\* `if guard.X.0 > 0 { guard.X.0 -= 1; }`
tick(t) == IF t > 0 THEN t - 1 ELSE t

\* C2 mutant: the guard dropped between the two timers
TimerDelayUnlocking ==
    /\ timer_pc = "delay"
    /\ interface' = [interface EXCEPT !.delay_timer = tick(@)]
    /\ interface_lock' = "none"
    /\ timer_pc' = "sound"
    /\ history' = [history EXCEPT !.ticks_since = @ + 1]
    /\ UNCHANGED <<frontend, vm, stopper, stopper_lock, vm_pc, vis_pc,
                   opcode, instruction, panic>>

TimerDelay ==
    /\ timer_pc = "delay"
    /\ interface' = [interface EXCEPT !.delay_timer = tick(@)]
    /\ timer_pc' = "sound"
    /\ history' = [history EXCEPT !.ticks_since = @ + 1]
    /\ UNCHANGED <<frontend, vm, interface_lock, stopper, stopper_lock, vm_pc, vis_pc,
                   opcode, instruction, panic>>

\* C4 mutant: the tick also forgets the pressed key
TimerSoundClearingKey ==
    /\ timer_pc = "sound"
    /\ interface' = [interface EXCEPT !.sound_timer = tick(@), !.key_down = None]
    /\ interface_lock' = "none"
    /\ timer_pc' = "sleep"
    /\ UNCHANGED <<frontend, vm, stopper, stopper_lock, vm_pc, vis_pc,
                   opcode, instruction, panic, history>>

TimerSound ==
    /\ timer_pc = "sound"
    /\ interface' = [interface EXCEPT !.sound_timer = tick(@)]
    /\ interface_lock' = "none"
    /\ timer_pc' = "sleep"
    /\ UNCHANGED <<frontend, vm, stopper, stopper_lock, vm_pc, vis_pc,
                   opcode, instruction, panic, history>>

TimerSleep ==
    /\ timer_pc = "sleep"
    /\ timer_pc' = "check"
    /\ UNCHANGED <<frontend, vm, interface, interface_lock, stopper, stopper_lock, vm_pc,
                   vis_pc, opcode, instruction, panic, history>>

\* ---- the instruction loop, executor.rs lines 46 to 52
VmLockStopper ==
    /\ vm_pc = "check"
    /\ stopper_lock = "none"
    /\ stopper_lock' = "vm"
    /\ vm_pc' = "read_stop"
    /\ UNCHANGED <<frontend, vm, interface, interface_lock, stopper, timer_pc, vis_pc,
                   opcode, instruction, panic, history>>

\* C5 mutant: the flag read and ignored
VmReadStopperIgnoring ==
    /\ vm_pc = "read_stop"
    /\ stopper_lock' = "none"
    /\ vm_pc' = "step"
    /\ UNCHANGED <<frontend, vm, interface, interface_lock, stopper, timer_pc, vis_pc,
                   opcode, instruction, panic, history>>

VmReadStopper ==
    /\ vm_pc = "read_stop"
    /\ stopper_lock' = "none"
    /\ vm_pc' = IF stopper THEN "done" ELSE "step"
    /\ UNCHANGED <<frontend, vm, interface, interface_lock, stopper, timer_pc, vis_pc,
                   opcode, instruction, panic, history>>

\* VirtualMachine::step up to the first lock of the interface: the fetch,
\* the decoding and, for an instruction that never locks, its whole effect.
\* A panic ends the thread.
VmStep ==
    /\ vm_pc = "step"
    /\ LET cur == current_instruction(vm)
       IN  IF cur.panic # "none"
           THEN /\ panic' = cur.panic
                /\ vm_pc' = "panicked"
                /\ UNCHANGED <<vm, opcode, instruction>>
           ELSE /\ opcode' = <<memory_get(vm.memory, vm.program_counter),
                               memory_get(vm.memory, vm.program_counter + 1)>>
                /\ instruction' = cur.instruction
                /\ \E checked \in BOOLEAN :
                     \E rnd \in RandChoices(cur.instruction) :
                        LET r == execute_instruction(vm, interface, cur.instruction,
                                                     checked, rnd)
                        IN  IF r.panic # "none"
                            THEN /\ vm' = r.vm
                                 /\ panic' = r.panic
                                 /\ vm_pc' = "panicked"
                            ELSE IF UsesInterface(cur.instruction)
                            THEN /\ vm_pc' = "lock"
                                 /\ UNCHANGED <<vm, panic>>
                            ELSE /\ vm' = r.vm
                                 /\ vm_pc' = "sleep"
                                 /\ UNCHANGED panic
    /\ UNCHANGED <<frontend, interface, interface_lock, stopper, stopper_lock, timer_pc,
                   vis_pc, history>>

VmLockInterface ==
    /\ vm_pc = "lock"
    /\ interface_lock = "none"
    /\ interface_lock' = "vm"
    /\ vm_pc' = "access"
    /\ UNCHANGED <<frontend, vm, interface, stopper, stopper_lock, timer_pc, vis_pc,
                   opcode, instruction, panic, history>>

\* the history after the locked access of the instruction
Accessed(h, m, ins) ==
    IF ins.op = "SetDelayTimer"
    THEN [h EXCEPT !.last_set = m.registers[ins.x], !.ticks_since = 0]
    ELSE h

\* C6 mutant: the guard kept over the sleep
VmAccessKeepingLock ==
    /\ vm_pc = "access"
    /\ LET r == execute_instruction(vm, interface, instruction, FALSE, 0)
       IN  /\ vm' = r.vm
           /\ interface' = r.interface
    /\ history' = Accessed(history, vm, instruction)
    /\ vm_pc' = "sleep"
    /\ UNCHANGED <<frontend, interface_lock, stopper, stopper_lock, timer_pc, vis_pc,
                   opcode, instruction, panic>>

\* the locked read or write of the instruction, the guard dropped after it
VmAccess ==
    /\ vm_pc = "access"
    /\ LET r == execute_instruction(vm, interface, instruction, FALSE, 0)
       IN  /\ vm' = r.vm
           /\ interface' = r.interface
    /\ history' = Accessed(history, vm, instruction)
    /\ interface_lock' = "none"
    /\ vm_pc' = "sleep"
    /\ UNCHANGED <<frontend, stopper, stopper_lock, timer_pc, vis_pc, opcode, instruction, panic>>

\* C32 mutant: the next instruction without a look at the stop flag
VmSleepThenStep ==
    /\ vm_pc = "sleep"
    /\ vm_pc' = "step"
    /\ UNCHANGED <<frontend, vm, interface, interface_lock, stopper, stopper_lock, timer_pc,
                   vis_pc, opcode, instruction, panic, history>>

\* `thread::sleep(self.instruction_sleep)`
VmSleep ==
    /\ vm_pc = "sleep"
    /\ vm_pc' = "check"
    /\ UNCHANGED <<frontend, vm, interface, interface_lock, stopper, stopper_lock, timer_pc,
                   vis_pc, opcode, instruction, panic, history>>

\* ---- the visualizer thread, visualizer/mod.rs lines 94 to 103 and 180 to 242
VisLockInterface ==
    /\ vis_pc \in {"inject_lock", "keys_lock", "sound_lock"}
    /\ interface_lock = "none"
    /\ interface_lock' = "vis"
    /\ vis_pc' = CASE vis_pc = "inject_lock" -> "inject"
                   [] vis_pc = "keys_lock" -> "keys_reset"
                   [] vis_pc = "sound_lock" -> "sound"
    /\ UNCHANGED <<frontend, vm, interface, stopper, stopper_lock, timer_pc, vm_pc,
                   opcode, instruction, panic, history>>

\* `vm_interface.lock().unwrap().display = Box::new(FadeDisplay::new(..))`
VisInject ==
    /\ vis_pc = "inject"
    /\ \E fade \in DisplayFades :
         interface' = [interface EXCEPT !.display = FadeDisplay(fade)]
    /\ interface_lock' = "none"
    /\ vis_pc' = "keys_lock"
    /\ UNCHANGED <<frontend, vm, stopper, stopper_lock, timer_pc, vm_pc,
                   opcode, instruction, panic, history>>

\* C34 mutant: the guard is given up between the reset and the loop over
\* the held keys
VisKeysResetUnlocking ==
    /\ vis_pc = "keys_reset"
    /\ interface' = [interface EXCEPT !.key_down = None]
    /\ interface_lock' = "none"
    /\ vis_pc' = "keys_set"
    /\ UNCHANGED <<frontend, vm, stopper, stopper_lock, timer_pc, vm_pc,
                   opcode, instruction, panic, history>>

\* `*key_down = None`
VisKeysReset ==
    /\ vis_pc = "keys_reset"
    /\ interface' = [interface EXCEPT !.key_down = None]
    /\ vis_pc' = "keys_set"
    /\ UNCHANGED <<frontend, vm, interface_lock, stopper, stopper_lock, timer_pc, vm_pc,
                   opcode, instruction, panic, history>>

\* the loop over keys_pressed: the highest pressed key, if any
VisKeysSet ==
    /\ vis_pc = "keys_set"
    /\ \E k \in Keys \cup {None} :
         interface' = [interface EXCEPT !.key_down = IF k = None THEN @ ELSE k]
    /\ interface_lock' = "none"
    /\ vis_pc' = "sound_lock"
    /\ UNCHANGED <<frontend, vm, stopper, stopper_lock, timer_pc, vm_pc,
                   opcode, instruction, panic, history>>

\* `if ...lock().unwrap().sound_timer.0 > 0`
VisSound ==
    /\ vis_pc = "sound"
    /\ interface_lock' = "none"
    /\ vis_pc' = "keys_lock"
    /\ UNCHANGED <<frontend, vm, interface, stopper, stopper_lock, timer_pc, vm_pc,
                   opcode, instruction, panic, history>>

\* `while internals.window.is_open()` fails
VisClose ==
    /\ vis_pc = "keys_lock"
    /\ vis_pc' = "closed"
    /\ UNCHANGED <<frontend, vm, interface, interface_lock, stopper, stopper_lock, timer_pc,
                   vm_pc, opcode, instruction, panic, history>>

Next ==
    \/ SpawnVisualizer \/ SpawnTimer \/ SpawnVm
    \/ MainLockStopper \/ MainSetStopper
    \/ TimerLockStopper \/ TimerReadStopper \/ TimerLockInterface
    \/ TimerDelay \/ TimerSound \/ TimerSleep
    \/ VmLockStopper \/ VmReadStopper \/ VmStep \/ VmLockInterface
    \/ VmAccess \/ VmSleep
    \/ VisLockInterface \/ VisInject \/ VisKeysReset \/ VisKeysSet
    \/ VisSound \/ VisClose

Spec == Init /\ [][Next]_vars

\* SpecFair: Spec under fair scheduling.  A thread that can take a step
\* takes one; a thread that waits for a mutex gets it if the mutex is free
\* again and again; whoever holds a mutex goes on to release it.
\* VmStep and VmAccess are named by what they do to vm_pc: they are the
\* only steps that leave "step" and "access", and they are enabled there.
VmStepped == vm_pc = "step" /\ vm_pc' \in {"lock", "sleep", "panicked"}

VmAccessed == vm_pc = "access" /\ vm_pc' = "sleep"

Fairness ==
    /\ WF_vars(TimerReadStopper \/ TimerDelay \/ TimerSound \/ TimerSleep)
    /\ SF_vars(TimerLockStopper)
    /\ SF_vars(TimerLockInterface)
    /\ WF_vars(VmReadStopper \/ VmSleep)
    /\ WF_vm_pc(VmStepped \/ VmAccessed)
    /\ SF_vars(VmLockStopper)
    /\ SF_vars(VmLockInterface)
    /\ WF_vars(VisInject \/ VisKeysReset \/ VisKeysSet \/ VisSound)
    /\ WF_vars(MainSetStopper)

SpecFair == Spec /\ Fairness

(***************************************************************************)
(* The claims about the two loops of the executor                          *)
(***************************************************************************)
Max0(n) == IF n > 0 THEN n ELSE 0

\* the critical sections of the interface mutex, thread by thread
TimerSections == {"delay", "sound"}
VmSections == {"access"}
VisSections == {"inject", "keys_reset", "keys_set", "sound"}

\* the step of the timer loop that handles the delay timer, and the one
\* that handles the sound timer
DelayTicked == timer_pc = "delay" /\ timer_pc' = "sound"
SoundTicked == timer_pc = "sound" /\ timer_pc' = "sleep"

\* C1: whatever the interleaving, delay_timer and sound_timer are in
\* 0..255, and a tick takes exactly 1 from a timer that is above 0 and
\* leaves a timer that is 0 at 0.
C1_TimersInRange ==
    /\ [](interface.delay_timer \in 0 .. 255 /\ interface.sound_timer \in 0 .. 255)
    /\ [][/\ DelayTicked =>
                /\ interface'.delay_timer =
                      IF interface.delay_timer > 0 THEN interface.delay_timer - 1 ELSE 0
                /\ interface'.sound_timer = interface.sound_timer
          /\ SoundTicked =>
                /\ interface'.sound_timer =
                      IF interface.sound_timer > 0 THEN interface.sound_timer - 1 ELSE 0
                /\ interface'.delay_timer = interface.delay_timer]_vars

\* C1 witness: both timers were set to 2 and two ticks took them to 0
C1_Witness ==
    /\ timer_pc = "sleep"
    /\ history.last_set = 2
    /\ history.ticks_since = 2
    /\ interface.delay_timer = 0
    /\ interface.sound_timer = 0

\* C2: while a tick has handled the delay timer and not yet the sound
\* timer, the timer loop holds the interface mutex and neither the
\* instruction loop nor the renderer is inside a critical section.
C2_TickIsOneSection ==
    timer_pc = "sound" =>
        /\ interface_lock = "timer"
        /\ vm_pc \notin VmSections
        /\ vis_pc \notin VisSections

\* C2 witness: half a tick done, the two other threads waiting for the mutex
C2_Witness ==
    /\ timer_pc = "sound"
    /\ interface.delay_timer = 1
    /\ interface.sound_timer = 2
    /\ vm_pc = "lock"
    /\ vis_pc = "sound_lock"

\* C3: delay_timer is max(0, v - k), v the value of the latest
\* SetDelayTimer (0 if none) and k the ticks since that write, and the
\* locked read of GetDelayTimer(x) stores that value in reg[x].
C3_DelayTimerValue ==
    /\ [](interface.delay_timer = Max0(history.last_set - history.ticks_since))
    /\ [][(vm_pc = "access" /\ vm_pc' = "sleep" /\ instruction.op = "GetDelayTimer") =>
             /\ vm'.registers[instruction.x] = interface.delay_timer
             /\ vm'.registers[instruction.x] =
                   Max0(history.last_set - history.ticks_since)]_vars

\* C3 witness: V1 read 1 after the timer was set to 2 and ticked once
C3_Witness ==
    /\ vm_pc = "sleep"
    /\ instruction.op = "GetDelayTimer"
    /\ history.last_set = 2
    /\ history.ticks_since = 1
    /\ vm.registers[1] = 1

\* C4: a step of the timer loop leaves the machine, the pressed key and
\* the display sink as they were.
C4_TimerFrame ==
    [][timer_pc' # timer_pc =>
          /\ vm' = vm
          /\ interface'.key_down = interface.key_down
          /\ interface'.display = interface.display]_vars

\* C4 witness: a tick completed with a key down and pixels on
C4_Witness ==
    /\ timer_pc = "sleep"
    /\ history.ticks_since > 0
    /\ interface.key_down = 4
    /\ vm.logical_display # {}
    /\ interface.display.kind = "Fade"
    /\ interface.display.true_display # {}

\* C5: under fair scheduling, once the stop flag is true and the two loops
\* run, both loops end, wherever the instruction loop is.
C5_StopEndsLoops ==
    (stopper /\ timer_pc # "unspawned" /\ vm_pc # "unspawned")
        ~> (timer_pc = "done" /\ vm_pc \in {"done", "panicked"})

\* C5 witness: both loops ended, the instruction loop out of a WaitKey
\* that was retrying with no key down
C5_Witness ==
    /\ stopper
    /\ timer_pc = "done"
    /\ vm_pc = "done"
    /\ instruction.op = "WaitKey"
    /\ interface.key_down = None
    /\ vm.program_counter = PROGRAM_START

\* C6: a sleeping loop holds neither mutex, and a loop holds the interface
\* mutex exactly while it is at its locked access.
C6_NoLockOverSleep ==
    /\ timer_pc = "sleep" => interface_lock # "timer" /\ stopper_lock # "timer"
    /\ vm_pc = "sleep" => interface_lock # "vm" /\ stopper_lock # "vm"
    /\ interface_lock = "timer" <=> timer_pc \in TimerSections
    /\ interface_lock = "vm" <=> vm_pc \in VmSections
    /\ stopper_lock = "timer" <=> timer_pc = "read_stop"
    /\ stopper_lock = "vm" <=> vm_pc = "read_stop"

\* C6 witness: both loops asleep, the instruction loop after a WaitKey
\* retry, while other threads hold the two mutexes
C6_Witness ==
    /\ timer_pc = "sleep"
    /\ vm_pc = "sleep"
    /\ instruction.op = "WaitKey"
    /\ vm.program_counter = PROGRAM_START
    /\ interface_lock = "vis"
    /\ stopper_lock = "main"

(***************************************************************************)
(* SpecAlu: one conditional or arithmetic opcode, decoded and executed on  *)
(* a machine whose registers V0, V1 and VF hold chosen values.             *)
(***************************************************************************)
\* the values of V1 and the constants NN of the opcodes
Operands == {0, 1, 128, 255}

\* the values VF holds before the opcode
Flags == {0, 1}

\* the registers the opcodes name as x and as y
AluX == {0}
AluY == {0, 1, 15}

AluOpcodes ==
    {<<k * 16 + x, nn>> : k \in {3, 4, 6, 7}, x \in AluX, nn \in Operands}
    \cup {<<k * 16 + x, y * 16>> : k \in {5, 9}, x \in AluX, y \in AluY}
    \cup {<<8 * 16 + x, y * 16 + k>> :
             x \in AluX, y \in AluY, k \in {0, 1, 2, 3, 4, 5, 6, 7, 14}}

InitAlu ==
    \E a \in Byte, b \in Operands, flag \in Flags :
        /\ vm = [NewVm(<< >>) EXCEPT !.registers[0] = a, !.registers[1] = b,
                                     !.registers[15] = flag]
        /\ interface = NewInterface
        /\ interface_lock = "none"
        /\ stopper = FALSE
        /\ stopper_lock = "none"
        /\ timer_pc = "unspawned"
        /\ vm_pc = "unspawned"
        /\ vis_pc = "unspawned"
        /\ main_pc = "start"
        /\ setup_done = [done |-> FALSE, lock |-> "none"]
        /\ keys_pressed = {}
        /\ pixel = 0
        /\ opcode = <<0, 0>>
        /\ instruction = NoInstruction
        /\ panic = "none"
        /\ history = [steps |-> 0, last_set |-> 0, ticks_since |-> 0,
                      call_sites |-> << >>]

\* one opcode of `opcodes` decoded by from_16bit and executed, in a run of
\* at most maxSteps opcodes that a panic ends
RunOpcode(opcodes, maxSteps) ==
    /\ panic = "none"
    /\ history.steps < maxSteps
    /\ \E op \in opcodes, checked \in BOOLEAN :
         LET dec == from_16bit(op[1], op[2])
             r == execute_instruction(vm, interface, dec.instruction, checked, 0)
         IN  /\ opcode' = op
             /\ instruction' = dec.instruction
             /\ IF dec.panic # "none"
                THEN /\ panic' = dec.panic
                     /\ UNCHANGED <<vm, interface>>
                ELSE /\ vm' = r.vm
                     /\ interface' = r.interface
                     /\ panic' = r.panic
             /\ history' = [history EXCEPT !.steps = @ + 1]
    /\ UNCHANGED threads

NextAlu == RunOpcode(AluOpcodes, 1)

SpecAlu == InitAlu /\ [][NextAlu]_vars

\* the fields of the opcode just executed, and the registers before it
OpKind == opcode'[1] \div 16
OpX == opcode'[1] % 16
OpY == opcode'[2] \div 16
OpN == opcode'[2] % 16
OpNN == opcode'[2]
RegX == vm.registers[OpX]
RegY == vm.registers[OpY]

\* C11: 3xNN skips iff reg[x] = NN, 4xNN iff reg[x] # NN, 5xy0 iff
\* reg[x] = reg[y], 9xy0 iff reg[x] # reg[y]; a skip leaves PC = p + 4,
\* no skip PC = p + 2, and nothing else changes.
SkipCondition ==
    CASE OpKind = 3 -> RegX = OpNN
      [] OpKind = 4 -> RegX # OpNN
      [] OpKind = 5 -> RegX = RegY
      [] OpKind = 9 -> RegX # RegY

C11_RegisterSkips ==
    [][(Executed /\ OpKind \in {3, 4, 5, 9}) =>
          /\ panic' = "none"
          /\ vm' = [vm EXCEPT !.program_counter =
                                 IF SkipCondition THEN @ + 4 ELSE @ + 2]
          /\ interface' = interface]_vars

\* C11 witness: 9xy0 executed with V0 = 127 and V1 = 128 skipped
C11_Witness ==
    /\ history.steps = 1
    /\ opcode = <<144, 16>>
    /\ vm.registers[0] = 127
    /\ vm.registers[1] = 128
    /\ vm.program_counter = PROGRAM_START + 4

\* C12: after Add with destination x # 15, reg[x] = (a + b) mod 256 and
\* reg[15] = 1 if a + b > 255, else 0, for a = reg[x] and b = reg[y].
C12_AddCarry ==
    [][(Executed /\ OpKind = 8 /\ OpN = 4 /\ OpX # 15) =>
          /\ panic' = "none"
          /\ vm'.registers[OpX] = (RegX + RegY) % 256
          /\ vm'.registers[15] = IF RegX + RegY > 255 THEN 1 ELSE 0]_vars

\* C12 witness: 80F4 with V0 = 255 and VF = 1: the sum 256 wrapped to 0
C12_Witness ==
    /\ history.steps = 1
    /\ opcode = <<128, 244>>
    /\ vm.registers[0] = 0
    /\ vm.registers[1] = 255
    /\ vm.registers[15] = 1

\* C13: after Sub with destination x # 15, reg[x] = (a - b) mod 256 and
\* reg[15] = 1 if a > b, else 0; after NegSub, reg[x] = (b - a) mod 256
\* and reg[15] = 1 if b > a, else 0.
C13_SubBorrow ==
    [][/\ (Executed /\ OpKind = 8 /\ OpN = 5 /\ OpX # 15) =>
             /\ panic' = "none"
             /\ vm'.registers[OpX] = (RegX - RegY) % 256
             /\ vm'.registers[15] = IF RegX > RegY THEN 1 ELSE 0
       /\ (Executed /\ OpKind = 8 /\ OpN = 7 /\ OpX # 15) =>
             /\ panic' = "none"
             /\ vm'.registers[OpX] = (RegY - RegX) % 256
             /\ vm'.registers[15] = IF RegY > RegX THEN 1 ELSE 0]_vars

\* C13 witness: 8015 with V0 = V1 = 128: the difference 0 and the flag 0
C13_Witness ==
    /\ history.steps = 1
    /\ opcode = <<128, 21>>
    /\ vm.registers[0] = 0
    /\ vm.registers[1] = 128
    /\ vm.registers[15] = 0

\* C14: after RightShift with x # 15, reg[x] = a div 2 and reg[15] = a mod 2;
\* after LeftShift, reg[x] = (2 * a) mod 256 and reg[15] = 1 if a >= 128,
\* else 0; every register but x and 15, reg[y] included, keeps its value.
C14_Shifts ==
    [][/\ (Executed /\ OpKind = 8 /\ OpN = 6 /\ OpX # 15) =>
             /\ panic' = "none"
             /\ vm'.registers[OpX] = RegX \div 2
             /\ vm'.registers[15] = RegX % 2
       /\ (Executed /\ OpKind = 8 /\ OpN = 14 /\ OpX # 15) =>
             /\ panic' = "none"
             /\ vm'.registers[OpX] = (2 * RegX) % 256
             /\ vm'.registers[15] = IF RegX >= 128 THEN 1 ELSE 0
       /\ (Executed /\ OpKind = 8 /\ OpN \in {6, 14} /\ OpX # 15) =>
             \A r \in (0 .. 15) \ {OpX, 15} : vm'.registers[r] = vm.registers[r]]_vars

\* C14 witness: 8016 with V0 = 255 and V1 = 128: V0 = 127, VF = 1, V1 kept
C14_Witness ==
    /\ history.steps = 1
    /\ opcode = <<128, 22>>
    /\ vm.registers[0] = 127
    /\ vm.registers[1] = 128
    /\ vm.registers[15] = 1

\* the value Set, Or, And, Xor, SetConst and AddConst store in reg[x]
StoredValue ==
    CASE OpKind = 6 -> OpNN
      [] OpKind = 7 -> (RegX + OpNN) % 256
      [] OpKind = 8 /\ OpN = 0 -> RegY
      [] OpKind = 8 /\ OpN = 1 -> BitOr(RegX, RegY)
      [] OpKind = 8 /\ OpN = 2 -> BitAnd(RegX, RegY)
      [] OpKind = 8 /\ OpN = 3 -> BitXor(RegX, RegY)

\* C15: Set, Or, And, Xor, SetConst and AddConst with destination x # 15
\* change reg[x] and the program counter and nothing else: register 15
\* keeps its value, also when AddConst wraps.
C15_NoFlagOps ==
    [][(Executed /\ (OpKind \in {6, 7} \/ (OpKind = 8 /\ OpN \in {0, 1, 2, 3}))
                 /\ OpX # 15) =>
          /\ panic' = "none"
          /\ vm' = [vm EXCEPT !.program_counter = @ + 2,
                              !.registers[OpX] = StoredValue]
          /\ interface' = interface]_vars

\* C15 witness: 70FF with V0 = 255 and VF = 0: V0 = 254 and VF still 0
C15_Witness ==
    /\ history.steps = 1
    /\ opcode = <<112, 255>>
    /\ vm.registers[0] = 254
    /\ vm.registers[15] = 0

(***************************************************************************)
(* SpecDraw: a run of Draw, ClearDisplay and SetI opcodes on a machine     *)
(* with a two-row sprite at 0x200, zeros at 0x300, the coordinates in V0   *)
(* and V1, and a plain or a fading sink in place before the first opcode.  *)
(***************************************************************************)
MaxDrawSteps == 3

\* the rows 11111111 and 10000001
Sprite == <<255, 129>>

\* the coordinates V0 and V1 hold
DrawXs == {0, 60, 250}
DrawYs == {0, 31, 255}

\* D010, D011, D012, 00E0, A200, A300
DrawOpcodes == {<<208, 16>>, <<208, 17>>, <<208, 18>>, <<0, 224>>, <<162, 0>>, <<163, 0>>}

Sinks == {SimpleDisplay} \cup {FadeDisplay(fade) : fade \in DisplayFades}

InitDraw ==
    \E vx \in DrawXs, vy \in DrawYs, sink \in Sinks :
        /\ vm = [NewVm(Sprite) EXCEPT !.registers[0] = vx, !.registers[1] = vy,
                                      !.register_i = PROGRAM_START]
        /\ interface = [NewInterface EXCEPT !.display = sink]
        /\ interface_lock = "none"
        /\ stopper = FALSE
        /\ stopper_lock = "none"
        /\ timer_pc = "unspawned"
        /\ vm_pc = "unspawned"
        /\ vis_pc = "unspawned"
        /\ main_pc = "start"
        /\ setup_done = [done |-> FALSE, lock |-> "none"]
        /\ keys_pressed = {}
        /\ pixel = 0
        /\ opcode = <<0, 0>>
        /\ instruction = NoInstruction
        /\ panic = "none"
        /\ history = [steps |-> 0, last_set |-> 0, ticks_since |-> 0,
                      call_sites |-> << >>]

NextDraw == RunOpcode(DrawOpcodes, MaxDrawSteps)

SpecDraw == InitDraw /\ [][NextDraw]_vars

\* the pixels the sprite of the opcode just executed covers: the set bits of
\* its rows, placed from (reg[x], reg[y]) and wrapped at the screen edges
SpritePixels ==
    {<<(RegX + bit) % 64, (RegY + row) % 32>> :
        <<row, bit>> \in {c \in (0 .. (OpN - 1)) \X (0 .. 7) :
            (memory_get(vm.memory, vm.register_i + c[1]) \div (2 ^ (7 - c[2]))) % 2 = 1}}

\* C16: Draw(x, y, n), x and y not register 15, the sprite inside the
\* memory, inverts exactly the pixels of the sprite, wrapped at the screen
\* edges, for any reg[x] and reg[y], without failing, and leaves every
\* other pixel, the memory and the index register as they were.
C16_DrawWraps ==
    [][(Executed /\ OpKind = 13 /\ OpX # 15 /\ OpY # 15
                 /\ vm.register_i + OpN <= MEMORY_SIZE) =>
          /\ panic' = "none"
          /\ vm'.logical_display =
                (vm.logical_display \ SpritePixels)
                    \cup (SpritePixels \ vm.logical_display)
          /\ vm'.memory = vm.memory
          /\ vm'.register_i = vm.register_i]_vars

\* C17: after Draw, register 15 is 1 if a pixel that was on before the draw
\* was turned off by it, whatever the row, and 0 otherwise: also for a
\* sprite of zeros, for n = 0, and when the flag was 1 before.
C17_CollisionFlag ==
    [][(Executed /\ OpKind = 13) =>
          vm'.registers[15] =
              IF vm.logical_display \ vm'.logical_display # {} THEN 1 ELSE 0]_vars

\* C17 witness: D011 then D012: the first row collided, the second did
\* not, and the flag is 1
C17_Witness ==
    /\ history.steps = 2
    /\ opcode = <<208, 18>>
    /\ panic = "none"
    /\ vm.registers[0] = 60
    /\ vm.logical_display = {<<60, 1>>, <<3, 1>>}
    /\ vm.registers[15] = 1

\* the pixels that are on in the sink
SinkOn ==
    IF interface.display.kind = "Simple"
    THEN {px \in Pixels : display_get(interface.display, px[1], px[2]) = 255}
    ELSE interface.display.true_display

\* C19: with the sink in place before the first instruction, after any
\* run of instructions the pixels that are on in the sink are those of the
\* logical display; the plain sink reports 255 for them and 0 for the rest.
C19_SinkMirrorsLogical ==
    /\ SinkOn = vm.logical_display
    /\ interface.display.kind = "Simple" =>
          \A px \in Pixels :
              display_get(interface.display, px[1], px[2]) \in {0, 255}

\* C19 witness: a fading sink after two draws, one pixel switched off again
C19_Witness ==
    /\ history.steps = 2
    /\ interface.display.kind = "Fade"
    /\ vm.logical_display = {<<60, 1>>, <<3, 1>>}
    /\ interface.display.true_display = {<<60, 1>>, <<3, 1>>}
    /\ DOMAIN interface.display.display # interface.display.true_display

\* the step of the instruction loop that executes ClearDisplay
ClearExecuted ==
    vm_pc = "access" /\ vm_pc' = "sleep" /\ instruction.op = "ClearDisplay"

\* C18: ClearDisplay switches every pixel of the logical display off and
\* clears the sink in its one locked access; besides the program counter
\* nothing else changes, and the sink is cleared by no other step of it.
C18_ClearDisplay ==
    [][/\ ClearExecuted =>
             /\ interface_lock = "vm"
             /\ vm' = [vm EXCEPT !.program_counter = @ + 2, !.logical_display = {}]
             /\ interface' = [interface EXCEPT !.display = display_clear(@)]
             /\ SinkOn' = {}
       /\ (instruction'.op = "ClearDisplay" /\ ~ClearExecuted) =>
             interface'.display = interface.display]_vars

\* C18 witness: 00E0 of the key program executed, both displays empty
C18_Witness ==
    /\ vm_pc = "sleep"
    /\ instruction.op = "ClearDisplay"
    /\ vm.program_counter = PROGRAM_START + 6
    /\ vm.logical_display = {}
    /\ interface.display.kind = "Fade"
    /\ interface.display.true_display = {}
    /\ interface.display.display = << >>

(***************************************************************************)
(* SpecKeys: Ex9E or ExA1, decoded and executed with a chosen V0 and a     *)
(* chosen pressed key.                                                     *)
(***************************************************************************)
\* Option<u8> of a keymap over the 16 keys
KeyDowns == {None} \cup (0 .. 15)

\* the values of V0: the 16 keys and two bytes that name no key
KeyTargets == (0 .. 15) \cup {16, 255}

\* E09E and E0A1
KeyOpcodes == {<<224, 158>>, <<224, 161>>}

InitKeys ==
    \E target \in KeyTargets, key \in KeyDowns :
        /\ vm = [NewVm(<< >>) EXCEPT !.registers[0] = target]
        /\ interface = [NewInterface EXCEPT !.key_down = key]
        /\ interface_lock = "none"
        /\ stopper = FALSE
        /\ stopper_lock = "none"
        /\ timer_pc = "unspawned"
        /\ vm_pc = "unspawned"
        /\ vis_pc = "unspawned"
        /\ main_pc = "start"
        /\ setup_done = [done |-> FALSE, lock |-> "none"]
        /\ keys_pressed = {}
        /\ pixel = 0
        /\ opcode = <<0, 0>>
        /\ instruction = NoInstruction
        /\ panic = "none"
        /\ history = [steps |-> 0, last_set |-> 0, ticks_since |-> 0,
                      call_sites |-> << >>]

NextKeys == RunOpcode(KeyOpcodes, 1)

SpecKeys == InitKeys /\ [][NextKeys]_vars

\* the key numbered reg[x] is down
KeyPressed == interface.key_down # None /\ interface.key_down = RegX

Skipped == vm'.program_counter = vm.program_counter + 4
NotSkipped == vm'.program_counter = vm.program_counter + 2

KeyInstructions ==
    {Ins("IfKey", 0, 0, 0, 0), Ins("IfNotKey", 0, 0, 0, 0),
     Ins("WaitKey", 0, 0, 0, 0)}

NextKeyVariants == Execute(KeyInstructions, 1)

SpecKeyVariants == InitKeys /\ [][NextKeyVariants]_vars

\* the key numbered reg[x] of the instruction being executed is down
VariantKeyPressed ==
    interface.key_down # None
        /\ interface.key_down = vm.registers[instruction'.x]

C22_WaitKey ==
    [][(Executed /\ instruction'.op = "WaitKey") =>
          /\ panic' = "none"
          /\ interface' = interface
          /\ IF interface.key_down = None
             THEN vm' = vm
             ELSE vm' = [vm EXCEPT
                            !.registers[instruction'.x] = interface.key_down,
                            !.program_counter = @ + 2]]_vars

\* C22 witness: WaitKey(0) executed with V0 = 7 and no key down left the
\* program counter at 0x200
C22_Witness ==
    /\ history.steps = 1
    /\ instruction = Ins("WaitKey", 0, 0, 0, 0)
    /\ interface.key_down = None
    /\ vm.registers[0] = 7
    /\ vm.program_counter = PROGRAM_START

(***************************************************************************)
(* SpecCreate: VirtualMachine::new on program images of several lengths,   *)
(* the longest ones longer than the memory behind 0x200, and then the      *)
(* first calls of VirtualMachine::step.  history.program keeps the image   *)
(* the machine was created from.                                           *)
(***************************************************************************)
MaxCreateSteps == 1

CreateLengths == {0, 1, 2, 80, 3583, 3584, 3585, 3600}

CreateSeeds == 0 .. 15

\* an image of `len` bytes: a run of byte values that starts at 16 * seed
ProgramOf(len, seed) == [i \in 1 .. len |-> (16 * seed + 3 * (i - 1)) % U8]

InitCreate ==
    \E len \in CreateLengths, seed \in CreateSeeds :
        /\ vm = NewVm(ProgramOf(len, seed))
        /\ interface = NewInterface
        /\ interface_lock = "none"
        /\ stopper = FALSE
        /\ stopper_lock = "none"
        /\ timer_pc = "unspawned"
        /\ vm_pc = "unspawned"
        /\ vis_pc = "unspawned"
        /\ main_pc = "start"
        /\ setup_done = [done |-> FALSE, lock |-> "none"]
        /\ keys_pressed = {}
        /\ pixel = 0
        /\ opcode = <<0, 0>>
        /\ instruction = NoInstruction
        /\ panic = "none"
        /\ history = [steps |-> 0, last_set |-> 0, ticks_since |-> 0,
                      call_sites |-> << >>, program |-> ProgramOf(len, seed)]

\* VirtualMachine::step: execute_instruction(&self.current_instruction()),
\* in a run of at most maxSteps steps that a panic ends
Step(maxSteps) ==
    /\ panic = "none"
    /\ history.steps < maxSteps
    /\ LET cur == current_instruction(vm)
       IN  IF cur.panic # "none"
           THEN /\ panic' = cur.panic
                /\ instruction' = cur.instruction
                /\ history' = [history EXCEPT !.steps = @ + 1]
                /\ UNCHANGED <<vm, interface, opcode>>
           ELSE \E checked \in BOOLEAN, rnd \in RandChoices(cur.instruction) :
                   LET r == execute_instruction(vm, interface, cur.instruction,
                                                checked, rnd)
                   IN  /\ opcode' = <<memory_get(vm.memory, vm.program_counter),
                                      memory_get(vm.memory, vm.program_counter + 1)>>
                       /\ instruction' = cur.instruction
                       /\ vm' = r.vm
                       /\ interface' = r.interface
                       /\ panic' = r.panic
                       /\ history' = Recorded(history, vm, cur.instruction, r)
    /\ UNCHANGED threads

NextCreate == Step(MaxCreateSteps)

SpecCreate == InitCreate /\ [][NextCreate]_vars

\* the CHIP-8 font: the glyphs of the digits 0 to F, five rows each
CanonicalFont ==
    << <<240, 144, 144, 144, 240>>, <<32, 96, 32, 32, 112>>,
       <<240, 16, 240, 128, 240>>,  <<240, 16, 240, 16, 240>>,
       <<144, 144, 240, 16, 16>>,   <<240, 128, 240, 16, 240>>,
       <<240, 128, 240, 144, 240>>, <<240, 16, 32, 64, 64>>,
       <<240, 144, 240, 144, 240>>, <<240, 144, 240, 16, 240>>,
       <<240, 144, 240, 144, 144>>, <<224, 144, 224, 144, 224>>,
       <<240, 128, 128, 128, 240>>, <<224, 144, 144, 144, 224>>,
       <<240, 128, 240, 128, 240>>, <<240, 128, 240, 128, 128>> >>

\* the byte C23 puts at address a of a machine made from `program`
CreatedByte(program, a) ==
    IF a < 80 THEN CanonicalFont[(a \div 5) + 1][(a % 5) + 1]
    ELSE IF a >= 512 /\ a - 512 < Min({Len(program), 3584})
    THEN program[a - 512 + 1]
    ELSE 0

\* C23: a machine just created from a program image of any length has 4096
\* memory bytes: the canonical font at 0..79, program byte i at 0x200 + i
\* for i < min(L, 3584), the rest of the image dropped, every other byte 0;
\* PC = 0x200, the stack empty, registers, index register and timers 0, no
\* key pressed, the display all off.
C23_Creation ==
    history.steps = 0 =>
        /\ panic = "none"
        /\ DOMAIN vm.memory \subseteq 0 .. 4095
        /\ \A a \in 0 .. 4095 :
              memory_get(vm.memory, a) = CreatedByte(history.program, a)
        /\ vm.program_counter = 512
        /\ vm.stack = << >>
        /\ \A r \in 0 .. 15 : vm.registers[r] = 0
        /\ vm.register_i = 0
        /\ interface.delay_timer = 0
        /\ interface.sound_timer = 0
        /\ interface.key_down = None
        /\ vm.logical_display = {}
        /\ \A px \in Pixels : display_get(interface.display, px[1], px[2]) = 0

\* C23 witness: a machine just created from an image of 3585 bytes, whose
\* byte 3583 is the last of the memory and is not 0
C23_Witness ==
    /\ history.steps = 0
    /\ Len(history.program) = 3585
    /\ history.program[3584] # 0
    /\ memory_get(vm.memory, 4095) = history.program[3584]

(***************************************************************************)
(* SpecDecimal: Decimal executed once, for every value of V0 and for index *)
(* registers inside the font, inside the program and at the end of the     *)
(* memory.                                                                 *)
(***************************************************************************)
DecimalIndexes == {3, PROGRAM_START, 4093, 4094, 4095}

DecimalInstructions == {Ins("Decimal", 0, 0, 0, 0), Ins("Decimal", 1, 0, 0, 0)}

InitDecimal ==
    \E v \in Byte, index \in DecimalIndexes :
        /\ vm = [NewVm(<<1, 2, 3, 4>>) EXCEPT !.registers[0] = v,
                                              !.registers[1] = 254,
                                              !.register_i = index]
        /\ interface = NewInterface
        /\ interface_lock = "none"
        /\ stopper = FALSE
        /\ stopper_lock = "none"
        /\ timer_pc = "unspawned"
        /\ vm_pc = "unspawned"
        /\ vis_pc = "unspawned"
        /\ main_pc = "start"
        /\ setup_done = [done |-> FALSE, lock |-> "none"]
        /\ keys_pressed = {}
        /\ pixel = 0
        /\ opcode = <<0, 0>>
        /\ instruction = NoInstruction
        /\ panic = "none"
        /\ history = [steps |-> 0, last_set |-> 0, ticks_since |-> 0,
                      call_sites |-> << >>]

NextDecimal == Execute(DecimalInstructions, 1)

SpecDecimal == InitDecimal /\ [][NextDecimal]_vars

\* C24: for every v = reg[x], Decimal stores h = v div 100,
\* t = (v div 10) mod 10 and o = v mod 10 at memory[index], memory[index+1]
\* and memory[index+2] (where these three bytes exist), so that
\* 100h + 10t + o = v with every digit in 0..9; the index register, the
\* registers and every other memory byte stay as they were.
C24_Decimal ==
    [][(Executed /\ instruction'.op = "Decimal" /\ vm.register_i + 2 <= 4095) =>
          LET v == vm.registers[instruction'.x]
              index == vm.register_i
              h == memory_get(vm'.memory, index)
              t == memory_get(vm'.memory, index + 1)
              o == memory_get(vm'.memory, index + 2)
          IN  /\ panic' = "none"
              /\ h = v \div 100 /\ t = (v \div 10) % 10 /\ o = v % 10
              /\ 100 * h + 10 * t + o = v
              /\ {h, t, o} \subseteq 0 .. 9
              /\ \A a \in (0 .. 4095) \ (index .. (index + 2)) :
                    memory_get(vm'.memory, a) = memory_get(vm.memory, a)
              /\ vm' = [vm EXCEPT !.memory = vm'.memory,
                                  !.program_counter = @ + 2]
              /\ interface' = interface]_vars

\* C24 witness: Decimal(0) executed with V0 = 207 and index = 0x200 left
\* 2, 0, 7 at 0x200..0x202
C24_Witness ==
    /\ history.steps = 1
    /\ instruction = Ins("Decimal", 0, 0, 0, 0)
    /\ vm.registers[0] = 207
    /\ vm.register_i = PROGRAM_START
    /\ memory_get(vm.memory, PROGRAM_START) = 2
    /\ memory_get(vm.memory, PROGRAM_START + 1) = 0
    /\ memory_get(vm.memory, PROGRAM_START + 2) = 7

(***************************************************************************)
(* SpecRegs: runs of StoreRegisters and LoadRegisters on registers that    *)
(* all differ, with the index register in the font, in the program and     *)
(* near the end of the memory.                                             *)
(***************************************************************************)
MaxRegsSteps == 2

RegsIndexes == {0, PROGRAM_START, 4090}

RegsV0 == {0, 7, 200}

RegsX == {0, 2, 15}

RegsInstructions ==
    {Ins(op, x, 0, 0, 0) : op \in {"StoreRegisters", "LoadRegisters"}, x \in RegsX}

InitRegs ==
    \E v \in RegsV0, index \in RegsIndexes :
        /\ vm = [NewVm(<<91, 92, 93, 94>>) EXCEPT
                    !.registers = [r \in 0 .. 15 |-> IF r = 0 THEN v ELSE 100 + r],
                    !.register_i = index]
        /\ interface = NewInterface
        /\ interface_lock = "none"
        /\ stopper = FALSE
        /\ stopper_lock = "none"
        /\ timer_pc = "unspawned"
        /\ vm_pc = "unspawned"
        /\ vis_pc = "unspawned"
        /\ main_pc = "start"
        /\ setup_done = [done |-> FALSE, lock |-> "none"]
        /\ keys_pressed = {}
        /\ pixel = 0
        /\ opcode = <<0, 0>>
        /\ instruction = NoInstruction
        /\ panic = "none"
        /\ history = [steps |-> 0, last_set |-> 0, ticks_since |-> 0,
                      call_sites |-> << >>]

NextRegs == Execute(RegsInstructions, MaxRegsSteps)

SpecRegs == InitRegs /\ [][NextRegs]_vars

\* the memory bytes index .. index + x of the instruction being executed
BlockOfX == vm.register_i .. (vm.register_i + instruction'.x)

\* C25: StoreRegisters(x) copies reg[0..=x] to memory[index..=index+x],
\* LoadRegisters(x) copies memory[index..=index+x] into reg[0..=x] (where
\* these bytes exist); both leave the index register, the registers above x
\* and the memory outside the range as they were, so that LoadRegisters(x)
\* right after StoreRegisters(x) leaves every register as it was.
C25_StoreLoad ==
    [][/\ (Executed /\ instruction'.op = "StoreRegisters"
              /\ vm.register_i + instruction'.x <= 4095) =>
             /\ panic' = "none"
             /\ \A i \in 0 .. instruction'.x :
                   memory_get(vm'.memory, vm.register_i + i) = vm.registers[i]
             /\ \A a \in (0 .. 4095) \ BlockOfX :
                   memory_get(vm'.memory, a) = memory_get(vm.memory, a)
             /\ vm' = [vm EXCEPT !.memory = vm'.memory, !.program_counter = @ + 2]
             /\ interface' = interface
       /\ (Executed /\ instruction'.op = "LoadRegisters"
              /\ vm.register_i + instruction'.x <= 4095) =>
             /\ panic' = "none"
             /\ \A i \in 0 .. 15 :
                   vm'.registers[i] =
                       IF i <= instruction'.x
                       THEN memory_get(vm.memory, vm.register_i + i)
                       ELSE vm.registers[i]
             /\ vm' = [vm EXCEPT !.registers = vm'.registers,
                                 !.program_counter = @ + 2]
             /\ interface' = interface
       /\ (Executed /\ instruction'.op = "LoadRegisters"
              /\ history.steps > 0 /\ panic = "none"
              /\ instruction.op = "StoreRegisters"
              /\ instruction.x = instruction'.x) =>
             vm'.registers = vm.registers]_vars

\* C25 witness: StoreRegisters(2) and then LoadRegisters(2) were executed
\* with index = 0x200, where the program bytes 91, 92, 93 had been
C25_Witness ==
    /\ history.steps = 2
    /\ panic = "none"
    /\ instruction = Ins("LoadRegisters", 2, 0, 0, 0)
    /\ vm.register_i = PROGRAM_START
    /\ vm.registers[0] = 7 /\ vm.registers[1] = 101 /\ vm.registers[2] = 102
    /\ memory_get(vm.memory, PROGRAM_START + 2) = 102
    /\ memory_get(vm.memory, PROGRAM_START + 3) = 94

(***************************************************************************)
(* SpecGlyph: SpriteAddr(0) and Draw(1, 1, 5) with V1 = 0, as in           *)
(* test_graphics_sprite_addr, for every digit in V0 and for two values     *)
(* that are no digit, with either sink.                                    *)
(***************************************************************************)
MaxGlyphSteps == 2

GlyphDigits == (0 .. 15) \cup {16, 255}

GlyphInstructions == {Ins("SpriteAddr", 0, 0, 0, 0), Ins("Draw", 1, 1, 5, 0)}

InitGlyph ==
    \E digit \in GlyphDigits, sink \in Sinks :
        /\ vm = [NewVm(<< >>) EXCEPT !.registers[0] = digit,
                                     !.registers[15] = 1,
                                     !.register_i = PROGRAM_START]
        /\ interface = [NewInterface EXCEPT !.display = sink]
        /\ interface_lock = "none"
        /\ stopper = FALSE
        /\ stopper_lock = "none"
        /\ timer_pc = "unspawned"
        /\ vm_pc = "unspawned"
        /\ vis_pc = "unspawned"
        /\ main_pc = "start"
        /\ setup_done = [done |-> FALSE, lock |-> "none"]
        /\ keys_pressed = {}
        /\ pixel = 0
        /\ opcode = <<0, 0>>
        /\ instruction = NoInstruction
        /\ panic = "none"
        /\ history = [steps |-> 0, last_set |-> 0, ticks_since |-> 0,
                      call_sites |-> << >>]

NextGlyph == Execute(GlyphInstructions, MaxGlyphSteps)

SpecGlyph == InitGlyph /\ [][NextGlyph]_vars

\* the pixels (c, r) for which bit 7 - c of row r of the glyph of d is set
GlyphPixels(d) ==
    {px \in (0 .. 7) \X (0 .. 4) :
        (CanonicalFont[d + 1][px[2] + 1] \div (2 ^ (7 - px[1]))) % 2 = 1}

\* C26: for every digit d in 0..15, SpriteAddr with reg[x] = d sets
\* index = 5d, and a Draw of 5 rows at (0, 0) that follows it on an all-off
\* display switches on exactly the pixels (c, r) for which bit 7 - c of
\* byte r of the canonical glyph of d is set, with register 15 = 0.
C26_Glyphs ==
    [][/\ (Executed /\ instruction'.op = "SpriteAddr"
              /\ vm.registers[instruction'.x] \in 0 .. 15) =>
             /\ panic' = "none"
             /\ vm' = [vm EXCEPT !.register_i = 5 * vm.registers[instruction'.x],
                                 !.program_counter = @ + 2]
             /\ interface' = interface
       /\ (Executed /\ instruction'.op = "Draw" /\ instruction'.n = 5
              /\ vm.registers[instruction'.x] = 0
              /\ vm.registers[instruction'.y] = 0
              /\ vm.logical_display = {}
              /\ history.steps > 0 /\ panic = "none"
              /\ instruction.op = "SpriteAddr"
              /\ vm.registers[instruction.x] \in 0 .. 15) =>
             /\ panic' = "none"
             /\ vm'.logical_display = GlyphPixels(vm.registers[instruction.x])
             /\ vm'.registers[15] = 0]_vars

\* C26 witness: SpriteAddr and Draw were executed with V0 = 5, and the rows
\* 0xF0, 0x80, 0xF0, 0x10, 0xF0 are on the display
C26_Witness ==
    /\ history.steps = 2
    /\ panic = "none"
    /\ instruction = Ins("Draw", 1, 1, 5, 0)
    /\ vm.registers[0] = 5
    /\ vm.register_i = 25
    /\ vm.registers[15] = 0
    /\ vm.logical_display =
          {<<0, 0>>, <<1, 0>>, <<2, 0>>, <<3, 0>>,
           <<0, 1>>,
           <<0, 2>>, <<1, 2>>, <<2, 2>>, <<3, 2>>,
           <<3, 3>>,
           <<0, 4>>, <<1, 4>>, <<2, 4>>, <<3, 4>>}

(***************************************************************************)
(* SpecRun: VirtualMachine::step on machines created from short programs   *)
(* that set V0 and then reach the end of the memory with the program       *)
(* counter or with the index register, or draw at (V0, V0).                *)
(***************************************************************************)
MaxRunSteps == 4

RunV0 == {0, 1, 250, 255}

\* what follows `6 0 NN` at 0x202
RunBodies ==
    {<<175, 255, 240, 51>>,   \* AFFF F033: SetI 0xFFF, Decimal V0
     <<175, 255, 241, 85>>,   \* AFFF F155: SetI 0xFFF, StoreRegisters V1
     <<175, 255, 241, 101>>,  \* AFFF F165: SetI 0xFFF, LoadRegisters V1
     <<175, 255, 208, 2>>,    \* AFFF D002: SetI 0xFFF, Draw V0 V0 2
     <<175, 255, 240, 30>>,   \* AFFF F01E: SetI 0xFFF, AddToI V0
     <<160, 0, 208, 1>>,      \* A000 D001: SetI 0, Draw V0 V0 1
     <<191, 254>>,            \* BFFE: JumpAdd 0xFFE
     <<31, 254>>,             \* 1FFE: Jump 0xFFE
     <<48, 0, 0, 238>>,       \* 3000 00EE: IfNotEqualConst V0 0, Return
     <<1, 35>>,               \* 0123: MachineCodeRoutine
     <<224, 0>>,              \* E000: no instruction
     <<34, 2>>}               \* 2202: CallSubroutine 0x202

RunPrograms == {<<96, v>> \o body : v \in RunV0, body \in RunBodies}

InitRun == \E program \in RunPrograms : Created(program)

NextRun == Step(MaxRunSteps)

SpecRun == InitRun /\ [][NextRun]_vars

\* C27: in every state reachable from a newly created machine by decoded
\* instructions, the program counter and the index register hold an
\* address in 0..4095.
C27_AddressesInRange ==
    /\ vm.program_counter \in 0 .. 4095
    /\ vm.register_i \in 0 .. 4095

\* C28: a step of the machine fails only with StackOverflow,
\* StackUnderflow, InvalidRegister, InvalidOpcode or UnsupportedRoutine: no
\* fetch, sprite-row read or memory access of Decimal, StoreRegisters and
\* LoadRegisters leaves 0..4095, and no arithmetic on the program counter,
\* the index register or the draw coordinates aborts.
C28_DocumentedErrorsOnly ==
    panic \in {"none", "StackOverflow", "StackUnderflow", "InvalidRegister",
               "InvalidOpcode", "UnsupportedRoutine"}

(***************************************************************************)
(* SpecFatal: the threads of Spec on a program that sets the delay timer   *)
(* and then reaches a machine code routine, where execute_instruction      *)
(* panics inside the instruction thread.                                   *)
(***************************************************************************)
\* 60vv F015 0123: SetConst V0, SetDelayTimer V0, MachineCodeRoutine 0x123
FatalProgram(v) == <<96, v, 240, 21, 1, 35>>

InitFatal == \E v \in TimerValues : Created(FatalProgram(v))

SpecFatal == InitFatal /\ [][Next]_vars

\* C29: once the instruction loop has failed, no further instruction is
\* executed and the timer loop decrements no timer any more.
C29_FatalEndsRun ==
    [][panic # "none" =>
          /\ vm' = vm
          /\ history'.steps = history.steps
          /\ interface'.delay_timer = interface.delay_timer
          /\ interface'.sound_timer = interface.sound_timer]_vars

(***************************************************************************)
(* SpecRand: Rand(0, NN) executed once on a new machine, for several masks *)
(* NN and every byte thread_rng can return.                                *)
(***************************************************************************)
RandMasks == {0, 15, 170, 255}

RandInstructions == {Ins("Rand", 0, 0, nn, 0) : nn \in RandMasks}

InitRand == Created(<< >>)

NextRand == Execute(RandInstructions, 1)

SpecRand == InitRand /\ [][NextRand]_vars

\* Rand(0, 255) can be executed with result v
RandCanGive(v) ==
    ENABLED (NextRand /\ instruction' = Ins("Rand", 0, 0, 255, 0)
                      /\ vm'.registers[0] = v)

\* C30: Rand(x, NN) sets reg[x] = r AND NN where r can be any byte 0..255,
\* so that with NN = 255 every value 0..255, 255 included, is a possible
\* result; the result has no bit set that is clear in NN, and nothing else
\* but the program counter changes.
C30_RandAnyByte ==
    /\ [](history.steps = 0 => \A v \in 0 .. 255 : RandCanGive(v))
    /\ [][(Executed /\ instruction'.op = "Rand") =>
             /\ panic' = "none"
             /\ BitAnd(vm'.registers[instruction'.x], 255 - instruction'.n) = 0
             /\ vm' = [vm EXCEPT
                          !.registers[instruction'.x] = vm'.registers[instruction'.x],
                          !.program_counter = @ + 2]
             /\ interface' = interface]_vars

(***************************************************************************)
(* SpecRender: the instruction loop and the whole loop of visualizer::run  *)
(* (events, key update, sound, the pixel reads of the frame, frame()),     *)
(* from the moment run_concurrent_until has returned.  The model follows   *)
(* the first RenderedPixels pixel reads of every frame.                    *)
(***************************************************************************)
RenderedPixels == 2

\* the keys of the keymap that get pressed
RenderKeys == {0, 5}

\* D001: draw the font row 0xF0 at (V0, V0) = (0, 0); E09E: IfNotKey V0;
\* 00E0: clear; 1200
RenderProgram == <<208, 1, 224, 158, 0, 224, 18, 0>>

InitRender ==
    \E fade \in DisplayFades :
        /\ vm = NewVm(RenderProgram)
        /\ interface = [NewInterface EXCEPT !.display = FadeDisplay(fade)]
        /\ interface_lock = "none"
        /\ stopper = FALSE
        /\ stopper_lock = "none"
        /\ timer_pc = "unspawned"
        /\ vm_pc = "check"
        /\ vis_pc = "poll"
        /\ main_pc = "start"
        /\ setup_done = [done |-> TRUE, lock |-> "none"]
        /\ keys_pressed = {}
        /\ pixel = 0
        /\ opcode = <<0, 0>>
        /\ instruction = NoInstruction
        /\ panic = "none"
        /\ history = [steps |-> 0, last_set |-> 0, ticks_since |-> 0,
                      call_sites |-> << >>]

\* Display::frame of SimpleDisplay and of FadeDisplay: the countdown of
\* every pixel that is off goes down by one
display_frame(d) ==
    IF d.kind = "Simple" THEN d
    ELSE LET left(px) == IF px \in d.true_display THEN d.display[px]
                         ELSE d.display[px] - 1
         IN  [d EXCEPT !.display =
                 [px \in {q \in DOMAIN d.display : left(q) > 0} |-> left(px)]]

\* `while internals.window.is_open()` and the poll_event loop: the window
\* is closed, or key events leave any set of mapped keys held
RenderPoll ==
    /\ vis_pc = "poll"
    /\ \/ /\ vis_pc' = "closed"
          /\ UNCHANGED keys_pressed
       \/ /\ vis_pc' = "keys_lock"
          /\ keys_pressed' \in SUBSET RenderKeys
    /\ UNCHANGED <<vm, interface, interface_lock, stopper, stopper_lock, timer_pc,
                   vm_pc, main_pc, setup_done, pixel, opcode, instruction, panic,
                   history>>

\* the loop over keys_pressed.iter().enumerate(): every held key is
\* written in turn, the highest one last; then the guard goes
RenderKeysSet ==
    /\ vis_pc = "keys_set"
    /\ interface' = [interface EXCEPT !.key_down =
                        IF keys_pressed = {} THEN @
                        ELSE CHOOSE k \in keys_pressed :
                                \A j \in keys_pressed : j <= k]
    /\ interface_lock' = "none"
    /\ vis_pc' = "sound_lock"
    /\ UNCHANGED <<frontend, vm, stopper, stopper_lock, timer_pc, vm_pc,
                   opcode, instruction, panic, history>>

\* `if ...lock().unwrap().sound_timer.0 > 0`, then window.clear
RenderSound ==
    /\ vis_pc = "sound"
    /\ interface_lock' = "none"
    /\ vis_pc' = "get_lock"
    /\ UNCHANGED <<frontend, vm, interface, stopper, stopper_lock, timer_pc, vm_pc,
                   opcode, instruction, panic, history>>

\* the lock() of one pixel read and the lock() before frame()
RenderLockInterface ==
    /\ vis_pc \in {"get_lock", "frame_lock"}
    /\ interface_lock = "none"
    /\ interface_lock' = "vis"
    /\ vis_pc' = IF vis_pc = "get_lock" THEN "get" ELSE "frame"
    /\ UNCHANGED <<frontend, vm, interface, stopper, stopper_lock, timer_pc, vm_pc,
                   opcode, instruction, panic, history>>

\* `let alpha = ...lock().unwrap().display.get(x, y);`: the guard goes at
\* the end of the statement
RenderGet ==
    /\ vis_pc = "get"
    /\ pixel' = pixel + 1
    /\ interface_lock' = "none"
    /\ vis_pc' = IF pixel + 1 < RenderedPixels THEN "get_lock" ELSE "frame_lock"
    /\ UNCHANGED <<vm, interface, stopper, stopper_lock, timer_pc, vm_pc, main_pc,
                   setup_done, keys_pressed, opcode, instruction, panic, history>>

\* `...lock().unwrap().display.frame();` and window.display()
RenderFrame ==
    /\ vis_pc = "frame"
    /\ interface' = [interface EXCEPT !.display = display_frame(@)]
    /\ interface_lock' = "none"
    /\ pixel' = 0
    /\ vis_pc' = "poll"
    /\ UNCHANGED <<vm, stopper, stopper_lock, timer_pc, vm_pc, main_pc,
                   setup_done, keys_pressed, opcode, instruction, panic, history>>

NextRender ==
    \/ VmLockStopper \/ VmReadStopper \/ VmStep \/ VmLockInterface
    \/ VmAccess \/ VmSleep
    \/ RenderPoll \/ VisLockInterface \/ VisKeysReset \/ RenderKeysSet
    \/ RenderSound \/ RenderLockInterface \/ RenderGet \/ RenderFrame

SpecRender == InitRender /\ [][NextRender]_vars

\* the sink is changed by the instruction loop in this step
SinkDrawn ==
    /\ vm_pc = "access"
    /\ vm_pc' = "sleep"
    /\ instruction.op \in {"Draw", "ClearDisplay"}
    /\ interface'.display # interface.display

\* the renderer has read a pixel of this frame and has more to read
InsideFrame == vis_pc \in {"get_lock", "get"} /\ pixel > 0

\* C31: the renderer reads the pixels of one frame in one critical section
\* of the interface mutex: the mutex is not released between the first and
\* the last pixel read of a frame, and no Draw or Clear of the instruction
\* loop changes the sink between two pixel reads of the same frame.
C31_FrameIsOneSection ==
    /\ [](InsideFrame => interface_lock = "vis")
    /\ [][SinkDrawn => ~InsideFrame]_vars

\* an instruction, a tick is begun by this step
InstructionBegun == vm_pc # "step" /\ vm_pc' = "step"
TickBegun == timer_pc # "lock" /\ timer_pc' = "lock"

\* C32: once the stop flag is true no instruction and no tick is begun any
\* more, so that only the instruction and the tick whose stop check had
\* passed before are still carried out; the flag never stops an
\* instruction half way: under fair scheduling an instruction that was
\* begun is completed.
C32_StopLatency ==
    /\ [][stopper => stopper']_vars
    /\ [][stopper => ~InstructionBegun /\ ~TickBegun]_vars
    /\ [][(vm_pc \in {"step", "lock", "access"}) =>
             vm_pc' \in {vm_pc, "lock", "access", "sleep", "panicked"}]_vars
    /\ (vm_pc \in {"step", "lock", "access"}) ~> (vm_pc \in {"sleep", "panicked"})

\* C32 witness: the stop flag is true, the instruction loop is inside the
\* SetDelayTimer whose stop check had passed and the timer loop is about to
\* do its last tick
C32_Witness ==
    /\ stopper
    /\ vm_pc = "access"
    /\ instruction.op = "SetDelayTimer"
    /\ timer_pc = "lock"

\* the coordinates of the set bits of the sprite the instruction at its
\* locked access draws, row by row and from bit 7 down
SpriteList ==
    LET cells == [k \in 1 .. (8 * instruction.n) |-> <<(k - 1) \div 8, (k - 1) % 8>>]
        Lit(c) == (memory_get(vm.memory, vm.register_i + c[1])
                       \div (2 ^ (7 - c[2]))) % 2 = 1
        lit == SelectSeq(cells, Lit)
    IN  [k \in 1 .. Len(lit) |->
            << (vm.registers[instruction.x] + lit[k][2]) % 64,
               (vm.registers[instruction.y] + lit[k][1]) % 32 >>]

\* the pixels that are on in exactly one of two sets
Inverted(on, toggled) == (on \ toggled) \cup (toggled \ on)

\* C33: the pixels that are on in the sink change only in a step of the
\* instruction loop inside its critical section; the Draw hands the sink,
\* in that one step, the list of the pixels it toggles on the logical
\* display, in the same order, so that whoever locks the interface finds
\* in the sink either none of the sprite or all of it.
C33_DrawIsOneCall ==
    [][/\ interface'.display.true_display # interface.display.true_display =>
             /\ vm_pc = "access" /\ vm_pc' = "sleep"
             /\ interface_lock = "vm" /\ interface_lock' = "none"
             /\ instruction.op \in {"Draw", "ClearDisplay"}
       /\ (vm_pc = "access" /\ vm_pc' = "sleep" /\ instruction.op = "Draw") =>
             /\ interface'.display =
                   display_draw_pixels(interface.display, SpriteList, 1)
             /\ interface'.display.true_display =
                   Inverted(interface.display.true_display,
                            {SpriteList[k] : k \in 1 .. Len(SpriteList)})
             /\ vm'.logical_display =
                   Inverted(vm.logical_display,
                            {SpriteList[k] : k \in 1 .. Len(SpriteList)})
       /\ (vm_pc' = vm_pc /\ vm_pc \in {"step", "lock", "access"}) =>
             /\ vm'.logical_display = vm.logical_display
             /\ interface'.display.true_display = interface.display.true_display]_vars

\* C33 witness: the renderer is between two pixel reads of a frame and the
\* whole font row 0xF0 is on, in the sink and on the logical display
C33_Witness ==
    /\ vis_pc = "get_lock"
    /\ pixel = 1
    /\ vm_pc = "sleep"
    /\ instruction.op = "Draw"
    /\ vm.logical_display = {<<0, 0>>, <<1, 0>>, <<2, 0>>, <<3, 0>>}
    /\ interface.display.true_display = vm.logical_display

\* the value the key update leaves in key_down for the held keys
HighestHeld ==
    IF keys_pressed = {} THEN None
    ELSE CHOOSE k \in keys_pressed : \A j \in keys_pressed : j <= k

\* the renderer is past the key update of the frame it is drawing
KeysUpdated ==
    vis_pc \in {"sound_lock", "sound", "get_lock", "get", "frame_lock", "frame"}

\* C34: the key update of a frame is one critical section: pressed_key is
\* written only by the renderer while it holds the interface lock, after
\* the update it is None exactly when no mapped key is held and otherwise
\* the highest held key, and the instruction loop never has the interface
\* while the update is between its reset and its last write, so it cannot
\* read None in a frame in which a key is held.
C34_KeyUpdateIsOneSection ==
    /\ [](vis_pc \in {"keys_reset", "keys_set"} => interface_lock = "vis")
    /\ [](KeysUpdated => interface.key_down = HighestHeld)
    /\ [](KeysUpdated /\ vm_pc = "access" /\ keys_pressed # {} =>
              interface.key_down # None)
    /\ [][interface'.key_down # interface.key_down =>
              vis_pc \in {"keys_reset", "keys_set"} /\ interface_lock = "vis"]_vars

\* C34 witness: keys 0 and 5 are held, the update of the frame has left 5
\* in pressed_key, and the instruction loop is reading the key inside its
\* own critical section
C34_Witness ==
    /\ keys_pressed = {0, 5}
    /\ KeysUpdated
    /\ interface.key_down = 5
    /\ vm_pc = "access"
    /\ instruction.op \in {"IfKey", "IfNotKey"}

(***************************************************************************)
(* SpecStartup: main() from Visualizer::new to the stop flag.  The         *)
(* visualizer thread injects its sink, sets setup_done under its mutex and *)
(* notifies; main waits in wait_for_init, starts the executor, joins the   *)
(* visualizer thread and sets the stop flag.  Condvar::wait releases the   *)
(* mutex while it blocks, takes it again before it returns, and may return *)
(* without a notification (a spurious wakeup).                             *)
(***************************************************************************)
\* D001: draw the font row at index 0; 1200
StartupProgram == <<208, 1, 18, 0>>

InitStartup == Created(StartupProgram)

\* Visualizer::new: thread::spawn of the visualizer thread
VisualizerNew ==
    /\ main_pc = "start"
    /\ vis_pc = "unspawned"
    /\ vis_pc' = "inject_lock"
    /\ main_pc' = "wait_lock"
    /\ UNCHANGED <<vm, interface, interface_lock, stopper, stopper_lock, timer_pc,
                   vm_pc, setup_done, keys_pressed, pixel, opcode, instruction,
                   panic, history>>

\* wait_for_init: `let guard = mutex.lock().unwrap();`
WaitLock ==
    /\ main_pc = "wait_lock"
    /\ setup_done.lock = "none"
    /\ setup_done' = [setup_done EXCEPT !.lock = "main"]
    /\ main_pc' = "wait_check"
    /\ UNCHANGED <<vm, interface, interface_lock, stopper, stopper_lock, timer_pc,
                   vm_pc, vis_pc, keys_pressed, pixel, opcode, instruction,
                   panic, history>>

\* wait_for_init: `if !*guard { condvar.wait(guard) ...`: the wait gives the
\* mutex up and blocks; with the flag set the function returns
WaitCheck ==
    /\ main_pc = "wait_check"
    /\ setup_done' = [setup_done EXCEPT !.lock = "none"]
    /\ main_pc' = IF setup_done.done THEN "executor" ELSE "waiting"
    /\ UNCHANGED <<vm, interface, interface_lock, stopper, stopper_lock, timer_pc,
                   vm_pc, vis_pc, keys_pressed, pixel, opcode, instruction,
                   panic, history>>

\* Condvar::wait: a wakeup that no notification caused
WaitSpuriousWakeup ==
    /\ main_pc = "waiting"
    /\ main_pc' = "wake_lock"
    /\ UNCHANGED <<vm, interface, interface_lock, stopper, stopper_lock, timer_pc,
                   vm_pc, vis_pc, setup_done, keys_pressed, pixel, opcode,
                   instruction, panic, history>>

\* Condvar::wait: the woken thread takes the mutex again
WaitRelock ==
    /\ main_pc = "wake_lock"
    /\ setup_done.lock = "none"
    /\ setup_done' = [setup_done EXCEPT !.lock = "main"]
    /\ main_pc' = "woken"
    /\ UNCHANGED <<vm, interface, interface_lock, stopper, stopper_lock, timer_pc,
                   vm_pc, vis_pc, keys_pressed, pixel, opcode, instruction,
                   panic, history>>

\* wait_for_init: `.unwrap();` drops the guard that wait returned, and the
\* function returns without another look at the flag
WaitReturn ==
    /\ main_pc = "woken"
    /\ setup_done' = [setup_done EXCEPT !.lock = "none"]
    /\ main_pc' = "executor"
    /\ UNCHANGED <<vm, interface, interface_lock, stopper, stopper_lock, timer_pc,
                   vm_pc, vis_pc, keys_pressed, pixel, opcode, instruction,
                   panic, history>>

\* main: run_concurrent_vm_until, the two thread::spawn
RunExecutor ==
    /\ main_pc = "executor"
    /\ timer_pc' = "check"
    /\ vm_pc' = "check"
    /\ main_pc' = "join"
    /\ UNCHANGED <<vm, interface, interface_lock, stopper, stopper_lock, vis_pc,
                   setup_done, keys_pressed, pixel, opcode, instruction, panic,
                   history>>

\* main: wait_for_close, the join of the visualizer thread
WaitForClose ==
    /\ main_pc = "join"
    /\ vis_pc = "closed"
    /\ main_pc' = "stop_lock"
    /\ UNCHANGED <<vm, interface, interface_lock, stopper, stopper_lock, timer_pc,
                   vm_pc, vis_pc, setup_done, keys_pressed, pixel, opcode,
                   instruction, panic, history>>

\* main: `stop_vm.lock()`
StopLock ==
    /\ main_pc = "stop_lock"
    /\ stopper_lock = "none"
    /\ stopper_lock' = "main"
    /\ main_pc' = "stop"
    /\ UNCHANGED <<vm, interface, interface_lock, stopper, timer_pc, vm_pc, vis_pc,
                   setup_done, keys_pressed, pixel, opcode, instruction, panic,
                   history>>

\* main: `*stop_vm.lock().unwrap() = true;`
StopSet ==
    /\ main_pc = "stop"
    /\ stopper' = TRUE
    /\ stopper_lock' = "none"
    /\ main_pc' = "done"
    /\ UNCHANGED <<vm, interface, interface_lock, timer_pc, vm_pc, vis_pc,
                   setup_done, keys_pressed, pixel, opcode, instruction, panic,
                   history>>

\* the visualizer thread: the sink is replaced, then VisualizerInternals::new
InjectSink ==
    /\ vis_pc = "inject"
    /\ \E fade \in DisplayFades :
         interface' = [interface EXCEPT !.display = FadeDisplay(fade)]
    /\ interface_lock' = "none"
    /\ vis_pc' = "done_lock"
    /\ UNCHANGED <<frontend, vm, stopper, stopper_lock, timer_pc, vm_pc,
                   opcode, instruction, panic, history>>

\* the visualizer thread: `mutex.lock()` of setup_done
DoneLock ==
    /\ vis_pc = "done_lock"
    /\ setup_done.lock = "none"
    /\ setup_done' = [setup_done EXCEPT !.lock = "vis"]
    /\ vis_pc' = "done_set"
    /\ UNCHANGED <<vm, interface, interface_lock, stopper, stopper_lock, timer_pc,
                   vm_pc, main_pc, keys_pressed, pixel, opcode, instruction,
                   panic, history>>

\* the visualizer thread: `*mutex.lock().unwrap() = true;`
DoneSet ==
    /\ vis_pc = "done_set"
    /\ setup_done' = [done |-> TRUE, lock |-> "none"]
    /\ vis_pc' = "notify"
    /\ UNCHANGED <<vm, interface, interface_lock, stopper, stopper_lock, timer_pc,
                   vm_pc, main_pc, keys_pressed, pixel, opcode, instruction,
                   panic, history>>

\* the visualizer thread: `condvar.notify_all();` wakes a thread blocked in
\* wait; then run()
NotifyAll ==
    /\ vis_pc = "notify"
    /\ main_pc' = IF main_pc = "waiting" THEN "wake_lock" ELSE main_pc
    /\ vis_pc' = "keys_lock"
    /\ UNCHANGED <<vm, interface, interface_lock, stopper, stopper_lock, timer_pc,
                   vm_pc, setup_done, keys_pressed, pixel, opcode, instruction,
                   panic, history>>

NextStartup ==
    \/ VisualizerNew \/ WaitLock \/ WaitCheck \/ WaitSpuriousWakeup
    \/ WaitRelock \/ WaitReturn \/ RunExecutor \/ WaitForClose
    \/ StopLock \/ StopSet
    \/ InjectSink \/ DoneLock \/ DoneSet \/ NotifyAll
    \/ TimerLockStopper \/ TimerReadStopper \/ TimerLockInterface
    \/ TimerDelay \/ TimerSound \/ TimerSleep
    \/ VmLockStopper \/ VmReadStopper \/ VmStep \/ VmLockInterface
    \/ VmAccess \/ VmSleep
    \/ VisLockInterface \/ VisKeysReset \/ VisKeysSet \/ VisSound \/ VisClose

SpecStartup == InitStartup /\ [][NextStartup]_vars

\* wait_for_init has returned
InitWaited == main_pc \in {"executor", "join", "stop_lock", "stop", "done"}

\* the visualizer thread has replaced the sink
SinkInjected == interface.display.kind = "Fade"

\* C35: wait_for_init returns only after the visualizer thread has
\* replaced the sink and set setup_done; a notification sent before the
\* wait begins is not lost (main never blocks in the wait once the
\* notification is out); and the executor that main starts after
\* wait_for_init applies every toggle to the fading sink, never to the
\* sink that is replaced.
C35_WaitForInit ==
    /\ [](InitWaited => setup_done.done /\ SinkInjected)
    /\ [](main_pc = "waiting" => vis_pc \in {"inject_lock", "inject", "done_lock",
                                              "done_set", "notify"})
    /\ [][(vm_pc = "access" /\ vm_pc' = "sleep" /\ instruction.op = "Draw") =>
              SinkInjected]_vars

\* the steps of the three loops, but for VmStep and VmAccess: those two
\* wait for nothing and are enabled wherever vm_pc is "step" or "access"
LoopStep ==
    \/ TimerLockStopper \/ TimerReadStopper \/ TimerLockInterface
    \/ TimerDelay \/ TimerSound \/ TimerSleep
    \/ VisLockInterface \/ VisInject \/ VisKeysReset \/ VisKeysSet \/ VisSound
    \/ VmLockStopper \/ VmReadStopper \/ VmLockInterface \/ VmSleep

\* the locks thread t holds
Held(t) ==
    (IF interface_lock = t THEN {"interface"} ELSE {})
        \cup (IF stopper_lock = t THEN {"stopper"} ELSE {})

\* thread t is at a lock() call
Acquiring(t) ==
    CASE t = "timer" -> timer_pc \in {"check", "lock"}
      [] t = "vm"    -> vm_pc \in {"check", "lock"}
      [] t = "vis"   -> vis_pc \in {"inject_lock", "keys_lock", "sound_lock"}
      [] t = "main"  -> ~stopper /\ stopper_lock # "main"

\* C36: no thread holds both locks, and a thread at a lock() call holds
\* neither of them (so it never waits for a lock while holding the other
\* one or the same one); no state is a deadlock: with the stop flag false
\* and the instruction loop or the renderer running, one of the loops can
\* take a step, or the caller is inside `*stop.lock().unwrap() = true` and
\* its next step sets the flag.
C36_NoDeadlock ==
    /\ interface_lock \in {"none", "timer", "vm", "vis"}
    /\ stopper_lock \in {"none", "timer", "vm", "main"}
    /\ \A t \in {"timer", "vm", "vis", "main"} :
         /\ Cardinality(Held(t)) <= 1
         /\ Acquiring(t) => Held(t) = {}
    /\ (/\ ~stopper
        /\ \/ vm_pc \notin {"unspawned", "done", "panicked"}
           \/ vis_pc \notin {"unspawned", "closed"})
         => \/ vm_pc \in {"step", "access"}
            \/ ENABLED LoopStep
            \/ stopper_lock = "main" /\ ENABLED MainSetStopper

\* C36 witness: the instruction loop and the timer loop both wait for the
\* interface, which the renderer holds, while the caller holds the lock of
\* the stop flag
C36_Witness ==
    /\ vm_pc = "lock"
    /\ timer_pc = "lock"
    /\ interface_lock = "vis"
    /\ stopper_lock = "main"
    /\ ~stopper

(***************************************************************************)
(* SpecFlagDest: one arithmetic opcode whose destination is VF, decoded    *)
(* and executed on a machine whose registers V1 and VF hold chosen values. *)
(***************************************************************************)
\* the registers the opcodes name as y
FlagDestY == {1, 15}

\* 8Fy4, 8Fy5, 8Fy6, 8Fy7, 8FyE
FlagDestOpcodes ==
    {<<8 * 16 + 15, y * 16 + k>> : y \in FlagDestY, k \in {4, 5, 6, 7, 14}}

InitFlagDest ==
    \E a \in Byte, b \in Operands :
        /\ vm = [NewVm(<< >>) EXCEPT !.registers[1] = b, !.registers[15] = a]
        /\ interface = NewInterface
        /\ interface_lock = "none"
        /\ stopper = FALSE
        /\ stopper_lock = "none"
        /\ timer_pc = "unspawned"
        /\ vm_pc = "unspawned"
        /\ vis_pc = "unspawned"
        /\ main_pc = "start"
        /\ setup_done = [done |-> FALSE, lock |-> "none"]
        /\ keys_pressed = {}
        /\ pixel = 0
        /\ opcode = <<0, 0>>
        /\ instruction = NoInstruction
        /\ panic = "none"
        /\ history = [steps |-> 0, last_set |-> 0, ticks_since |-> 0,
                      call_sites |-> << >>]

NextFlagDest == RunOpcode(FlagDestOpcodes, 1)

SpecFlagDest == InitFlagDest /\ [][NextFlagDest]_vars

\* the wrapped result of the opcode just executed, from the registers
\* before it
WrappedResult ==
    CASE OpN = 4  -> (RegX + RegY) % 256
      [] OpN = 5  -> (RegX - RegY) % 256
      [] OpN = 7  -> (RegY - RegX) % 256
      [] OpN = 6  -> RegX \div 2
      [] OpN = 14 -> (RegX * 2) % 256

\* C37: Add, Sub, NegSub, RightShift and LeftShift with destination VF
\* leave in VF the wrapped result of the operands read before the flag was
\* written, not the flag; no other register changes and PC = p + 2.
C37_FlagDestination ==
    [][(Executed /\ OpX = 15) =>
          /\ panic' = "none"
          /\ vm' = [vm EXCEPT !.registers[15] = WrappedResult,
                              !.program_counter = @ + 2]]_vars

\* C37 witness: 8F14 on VF = 255 and V1 = 128 has left 127 in VF, where the
\* carry is 1
C37_Witness ==
    /\ history.steps = 1
    /\ opcode = <<143, 20>>
    /\ instruction.op = "Add"
    /\ vm.registers[1] = 128
    /\ vm.registers[15] = 127

(***************************************************************************)
(* SpecFlagDraw: one Draw opcode of one row, with VF among its coordinate  *)
(* registers or not, decoded and executed on a machine with a blank        *)
(* display whose registers V1 and VF hold chosen values; the index         *)
(* register points at the font row 0xF0.                                   *)
(***************************************************************************)
\* the values of VF and of V1 before the opcode
FlagDrawColumns == 0 .. 31
FlagDrawRows == 0 .. 7

\* D111, D1F1, DF11, DFF1
FlagDrawOpcodes == {<<13 * 16 + x, y * 16 + 1>> : x \in {1, 15}, y \in {1, 15}}

InitFlagDraw ==
    \E a \in FlagDrawColumns, b \in FlagDrawRows :
        /\ vm = [NewVm(<< >>) EXCEPT !.registers[1] = b, !.registers[15] = a]
        /\ interface = NewInterface
        /\ interface_lock = "none"
        /\ stopper = FALSE
        /\ stopper_lock = "none"
        /\ timer_pc = "unspawned"
        /\ vm_pc = "unspawned"
        /\ vis_pc = "unspawned"
        /\ main_pc = "start"
        /\ setup_done = [done |-> FALSE, lock |-> "none"]
        /\ keys_pressed = {}
        /\ pixel = 0
        /\ opcode = <<0, 0>>
        /\ instruction = NoInstruction
        /\ panic = "none"
        /\ history = [steps |-> 0, last_set |-> 0, ticks_since |-> 0,
                      call_sites |-> << >>]

NextFlagDraw == RunOpcode(FlagDrawOpcodes, 1)

SpecFlagDraw == InitFlagDraw /\ [][NextFlagDraw]_vars

\* the pixels of the sprite of the opcode just executed, placed at the
\* values its two registers held before it
SpriteAtRegisters ==
    {<<(RegX + c) % 64, (RegY + r) % 32>> :
        <<r, c>> \in {rc \in (0 .. (OpN - 1)) \X (0 .. 7) :
                        (memory_get(vm.memory, vm.register_i + rc[1])
                            \div (2 ^ (7 - rc[2]))) % 2 = 1}}

\* C38: Draw toggles the sprite at (reg[x], reg[y]) as the two registers
\* were before the instruction, also when x or y is VF: on a blank display
\* exactly those pixels are on afterwards, in the machine and in the sink.
C38_DrawAtRegisters ==
    [][(Executed /\ OpKind = 13) =>
          /\ panic' = "none"
          /\ vm'.logical_display = SpriteAtRegisters
          /\ interface'.display.display = SpriteAtRegisters]_vars

(***************************************************************************)
(* SpecAnyOpcode: any one byte pair decoded by from_16bit and, where it    *)
(* decodes, executed on a new machine.                                     *)
(***************************************************************************)
AnyOpcodes == Byte \X Byte

InitAnyOpcode == Created(<< >>)

NextAnyOpcode == RunOpcode(AnyOpcodes, 1)

SpecAnyOpcode == InitAnyOpcode /\ [][NextAnyOpcode]_vars

\* C39: whatever the byte pair, the operands x and y of the decoded
\* instruction and every register the execute step goes through (for
\* StoreRegisters and LoadRegisters the registers 0 to x) are in 0..15,
\* and the step does not end in the InvalidRegister assertion.
C39_RegistersInRange ==
    /\ instruction.x \in 0 .. 15
    /\ instruction.y \in 0 .. 15
    /\ RegistersOf(instruction) \subseteq 0 .. 15
    /\ panic # "InvalidRegister"

\* C39 witness: FF65 was executed, LoadRegisters over all of V0 to VF
C39_Witness ==
    /\ history.steps = 1
    /\ opcode = <<255, 101>>
    /\ instruction.op = "LoadRegisters"
    /\ RegistersOf(instruction) = 0 .. 15
    /\ panic = "none"

(***************************************************************************)
(* SpecWait: the threads of Spec on a program that starts the delay timer  *)
(* and then waits for a key; SpecWaitFair is SpecWait under the fair       *)
(* scheduling of SpecFair.                                                 *)
(***************************************************************************)
\* 6002: V0 = 2; F015: delay = V0; F10A: wait for a key into V1; 1200
WaitProgram == <<96, 2, 240, 21, 241, 10, 18, 0>>

InitWait == Created(WaitProgram)

SpecWait == InitWait /\ [][Next]_vars

SpecWaitFair == SpecWait /\ Fairness

\* the instruction loop runs and its next instruction is the WaitKey
AtWaitKey ==
    /\ vm_pc \in {"check", "read_stop", "step", "lock", "access", "sleep"}
    /\ vm.program_counter = PROGRAM_START + 4

\* the WaitKey has completed with key 4
WaitKeyDone ==
    /\ instruction.op = "WaitKey"
    /\ vm.program_counter = PROGRAM_START + 6
    /\ vm.registers[1] = 4

\* what a thread that locks the interface finds in pressed_key
KeySeen(k) == interface_lock # "vis" => interface.key_down = k

\* C40: under fair scheduling, if from some point on the stop flag stays
\* false and pressed_key stays Some(4), a WaitKey(1) the instruction loop
\* is at completes with reg[1] = 4 and the program counter 2 past it;
\* a WaitKey executed with no key pressed leaves the machine at the same
\* WaitKey for the next iteration; and while no key is pressed and the
\* stop flag is false, the timer loop goes on taking the delay timer down.
C40_WaitKeyLiveness ==
    /\ (<>[](~stopper /\ KeySeen(4))) => (AtWaitKey ~> WaitKeyDone)
    /\ [][(vm_pc = "access" /\ vm_pc' = "sleep" /\ instruction.op = "WaitKey"
              /\ interface.key_down = None) =>
            /\ vm' = vm
            /\ current_instruction(vm').instruction = instruction]_vars
    /\ ([](~stopper /\ KeySeen(None))) =>
           ((AtWaitKey /\ interface.delay_timer > 0) ~> interface.delay_timer = 0)

\* C40 witness: the WaitKey has been executed again with no key pressed,
\* after the timer loop took the delay timer from 2 to 0
C40_Witness ==
    /\ ~stopper
    /\ vm_pc = "sleep"
    /\ instruction.op = "WaitKey"
    /\ vm.program_counter = PROGRAM_START + 4
    /\ interface.key_down = None
    /\ history.last_set = 2
    /\ interface.delay_timer = 0

====
